---- MODULE Spec2Model ----
(***************************************************************************)
(* The capture-to-broadcast pipeline of rpi_camera_streamer (the WebSocket *)
(* variant, src/rpi_camera_streamer): capture producers feed two bounded   *)
(* ingestion queues, broadcast_thread drains them (audio first), formats   *)
(* each event and fans it out to every registered client's queue, and one  *)
(* client_sender_thread per client hands queued messages to ws.send.       *)
(***************************************************************************)
EXTENDS Integers, Sequences, FiniteSets, TLC

(***************************************************************************)
(* Bounds of the model.  The program's queue capacities (100 per client,   *)
(* 50 video, 500 audio) are scaled down to sizes that can be enumerated; the    *)
(* capture producers stop after a fixed number of events.                  *)
(***************************************************************************)
ClientQueueMax == 2
VideoQueueSize == 2
AudioQueueSize == 1
MaxVideoEvents == 3
MaxAudioEvents == 1

\* The connections of one run: each id is one call of stream(ws).
ClientIds == {"A", "B"}

\* args.width / args.height (actual_width, actual_height of the capture).
Width == 640
Height == 480

\* The termination sentinel of a client queue, and "no value held".
None == <<>>
NoItem == <<>>

(***************************************************************************)
(* Payload bytes.  A byte string is a sequence of values 0..255.           *)
(***************************************************************************)
\* One captured JPEG frame (SOI marker FF D8 and one more byte).
JpegFrame == <<255, 216, 255>>

\* PCM blocks of one int16 sample: silence, and the sample -1 (FF FF).
AudioBlocks == {<<0, 0>>, <<255, 255>>}

\* base64 alphabet: index 0..63 -> ASCII code.
B64Char(i) ==
    IF i < 26 THEN 65 + i
    ELSE IF i < 52 THEN 97 + (i - 26)
    ELSE IF i < 62 THEN 48 + (i - 52)
    ELSE IF i = 62 THEN 43
    ELSE 47

\* base64.b64encode over a byte sequence (padding '=' is ASCII 61).
RECURSIVE B64Encode(_)
B64Encode(b) ==
    IF Len(b) = 0 THEN <<>>
    ELSE IF Len(b) = 1 THEN
        << B64Char(b[1] \div 4), B64Char((b[1] % 4) * 16), 61, 61 >>
    ELSE IF Len(b) = 2 THEN
        << B64Char(b[1] \div 4),
           B64Char((b[1] % 4) * 16 + b[2] \div 16),
           B64Char((b[2] % 16) * 4), 61 >>
    ELSE
        << B64Char(b[1] \div 4),
           B64Char((b[1] % 4) * 16 + b[2] \div 16),
           B64Char((b[2] % 16) * 4 + b[3] \div 64),
           B64Char(b[3] % 64) >> \o B64Encode(SubSeq(b, 4, Len(b)))

\* Continuation byte of a UTF-8 sequence.
IsCont(x) == x >= 128 /\ x <= 191

\* Length of the well-formed UTF-8 sequence starting at b[1]; 0 if none.
Utf8SeqLen(b) ==
    LET n == Len(b) IN
    IF b[1] < 128 THEN 1
    ELSE IF b[1] >= 194 /\ b[1] <= 223 THEN
        IF n >= 2 /\ IsCont(b[2]) THEN 2 ELSE 0
    ELSE IF b[1] >= 224 /\ b[1] <= 239 THEN
        IF n >= 3 /\ IsCont(b[2]) /\ IsCont(b[3])
           /\ (b[1] = 224 => b[2] >= 160)
           /\ (b[1] = 237 => b[2] <= 159) THEN 3 ELSE 0
    ELSE IF b[1] >= 240 /\ b[1] <= 244 THEN
        IF n >= 4 /\ IsCont(b[2]) /\ IsCont(b[3]) /\ IsCont(b[4])
           /\ (b[1] = 240 => b[2] >= 144)
           /\ (b[1] = 244 => b[2] <= 143) THEN 4 ELSE 0
    ELSE 0

\* bytes.decode("utf-8") succeeds (does not raise UnicodeDecodeError).
\* (v is the value of b: the bytes are evaluated once per call.)
RECURSIVE Utf8Valid(_)
Utf8Valid(b) ==
    \A v \in {b} :
        IF Len(v) = 0 THEN TRUE
        ELSE \E k \in {Utf8SeqLen(v)} :
                k > 0 /\ Utf8Valid(SubSeq(v, k + 1, Len(v)))

\* The code point of one well-formed sequence of k bytes.
Utf8CodePoint(b, k) ==
    IF k = 1 THEN b[1]
    ELSE IF k = 2 THEN (b[1] - 192) * 64 + (b[2] - 128)
    ELSE IF k = 3 THEN (b[1] - 224) * 4096 + (b[2] - 128) * 64 + (b[3] - 128)
    ELSE (b[1] - 240) * 262144 + (b[2] - 128) * 4096
         + (b[3] - 128) * 64 + (b[4] - 128)

\* bytes.decode("utf-8") of a valid byte sequence: its code points.
RECURSIVE Utf8Decode(_)
Utf8Decode(b) ==
    CHOOSE r \in
        { IF Len(v) = 0 THEN <<>>
          ELSE LET k == Utf8SeqLen(v) IN
               <<Utf8CodePoint(v, k)>> \o Utf8Decode(SubSeq(v, k + 1, Len(v)))
          : v \in {b} } : TRUE

(***************************************************************************)
(* Capture events, as the producers build them.                            *)
(***************************************************************************)
\* The JPEG the camera delivers at time ts: frames differ in size.
Frame(ts) == JpegFrame \o [i \in 1..(ts - 1) |-> 217]

\* _v4l2_capture: ('video', time, width, height, raw_size, base64 bytes).
V4l2Event(ts) ==
    <<"video", ts, Width, Height, Len(Frame(ts)), B64Encode(Frame(ts))>>

\* _rpi_capture: ('video', timestamp, width, height, frame_data).
RpiEvent(ts) == <<"video", ts, Width, Height, Frame(ts)>>

\* audio callback: ('audio', timestamp, raw_data).
AudioEvent(ts, raw) == <<"audio", ts, raw>>

(***************************************************************************)
(* broadcast_thread's formatting of one dequeued item.  The result is      *)
(* <<"raise">> when the unpacking or the decode raises, <<>> for the empty *)
(* message, and otherwise the fields of the f-string, in order.            *)
(***************************************************************************)
Raise == <<"raise">>

Format(item) ==
    IF item[1] = "video" THEN
        IF Len(item) # 6 THEN Raise                 \* unpack into 6 names
        ELSE IF ~Utf8Valid(item[6]) THEN Raise      \* data.decode("utf-8")
        ELSE <<"video", item[2], item[3], item[4], Utf8Decode(item[6])>>
    ELSE IF item[1] = "audio" THEN
        IF Len(item) # 3 THEN Raise
        ELSE IF ~Utf8Valid(item[3]) THEN Raise
        ELSE <<"audio", item[2], Utf8Decode(item[3])>>
    ELSE <<>>

(***************************************************************************)
(* The text of a message.  A str is the sequence of its code points; the   *)
(* message broadcast_thread enqueues is Wire(Format(item)), and the client *)
(* queues of the model carry its fields, from which Wire gives the text.   *)
(***************************************************************************)
\* The literal the f-string of a kind starts with: 'video' or 'audio'.
KindWord(kind) ==
    IF kind = "video" THEN <<118, 105, 100, 101, 111>>
    ELSE <<97, 117, 100, 105, 111>>

\* The separator ':' of the f-strings.
Sep == <<58>>

\* str() of a non-negative int: its decimal digits.
RECURSIVE Digits(_)
Digits(n) ==
    IF n < 10 THEN <<48 + n>>
    ELSE Digits(n \div 10) \o <<48 + (n % 10)>>

\* str() of the float of time.time(): a timestamp of the model is a whole
\* number t of clock ticks, which a float prints as 't.0'.
FloatStr(t) == Digits(t) \o <<46, 48>>

\* An f-string with width and height in the other order.
WireSwapped(msg) ==
    IF msg[1] = "video"
    THEN KindWord("video") \o Sep \o FloatStr(msg[2]) \o Sep \o Digits(msg[4])
         \o Sep \o Digits(msg[3]) \o Sep \o msg[5]
    ELSE KindWord("audio") \o Sep \o FloatStr(msg[2]) \o Sep \o msg[3]

\* f'video:{timestamp}:{width}:{height}:{data}' / f'audio:{timestamp}:{data}'
Wire(msg) ==
    IF msg[1] = "video"
    THEN KindWord("video") \o Sep \o FloatStr(msg[2]) \o Sep \o Digits(msg[3])
         \o Sep \o Digits(msg[4]) \o Sep \o msg[5]
    ELSE KindWord("audio") \o Sep \o FloatStr(msg[2]) \o Sep \o msg[3]

(***************************************************************************)
(* Reading a message back, as a receiver of the text format does: split at *)
(* the first colons, parse the numbers, and undo the payload's encoding.   *)
(***************************************************************************)
\* str.split(':', n): the parts of s around its first n separators.
RECURSIVE Split(_, _)
Split(s, n) ==
    IF n = 0 \/ ~(\E i \in DOMAIN s : s[i] = 58) THEN <<s>>
    ELSE LET i == CHOOSE j \in DOMAIN s :
                     s[j] = 58 /\ \A h \in 1..(j - 1) : s[h] # 58
         IN <<SubSeq(s, 1, i - 1)>> \o Split(SubSeq(s, i + 1, Len(s)), n - 1)

\* int() of a string of decimal digits.
RECURSIVE ParseDigits(_)
ParseDigits(d) ==
    IF d = <<>> THEN 0
    ELSE ParseDigits(SubSeq(d, 1, Len(d) - 1)) * 10 + (d[Len(d)] - 48)

\* float() of the text 't.0' of a whole timestamp.
ParseFloat(s) == ParseDigits(SubSeq(s, 1, Len(s) - 2))

\* str.encode("utf-8") of one code point.
Utf8Bytes(cp) ==
    IF cp < 128 THEN <<cp>>
    ELSE IF cp < 2048 THEN <<192 + (cp \div 64), 128 + (cp % 64)>>
    ELSE IF cp < 65536 THEN
        <<224 + (cp \div 4096), 128 + ((cp \div 64) % 64), 128 + (cp % 64)>>
    ELSE <<240 + (cp \div 262144), 128 + ((cp \div 4096) % 64),
           128 + ((cp \div 64) % 64), 128 + (cp % 64)>>

\* str.encode("utf-8")
RECURSIVE Utf8Encode(_)
Utf8Encode(t) ==
    IF t = <<>> THEN <<>> ELSE Utf8Bytes(Head(t)) \o Utf8Encode(Tail(t))

\* The value 0..63 of a character of the base64 alphabet.
B64Index(ch) == CHOOSE i \in 0..63 : B64Char(i) = ch

\* base64.b64decode of padded base64 text.
RECURSIVE B64Decode(_)
B64Decode(t) ==
    IF Len(t) < 4 THEN <<>>
    ELSE LET a == B64Index(t[1])
             b == B64Index(t[2])
             rest == B64Decode(SubSeq(t, 5, Len(t)))
         IN IF t[3] = 61 THEN <<(a * 4) + (b \div 16)>>
            ELSE LET c == B64Index(t[3])
                 IN IF t[4] = 61
                    THEN <<(a * 4) + (b \div 16),
                           ((b % 16) * 16) + (c \div 4)>>
                    ELSE <<(a * 4) + (b \div 16),
                           ((b % 16) * 16) + (c \div 4),
                           ((c % 4) * 64) + B64Index(t[4])>> \o rest

\* The event a message text stands for: kind, timestamp, (width, height,)
\* payload bytes.
Decode(w) ==
    IF Split(w, 1)[1] = KindWord("video")
    THEN LET p == Split(w, 4)
         IN <<"video", ParseFloat(p[2]), ParseDigits(p[3]), ParseDigits(p[4]),
              B64Decode(Utf8Encode(p[5]))>>
    ELSE LET p == Split(w, 2)
         IN <<"audio", ParseFloat(p[2]), Utf8Encode(p[3])>>

(***************************************************************************)
(* Queue operations.                                                       *)
(***************************************************************************)
\* A full() that is off by one: false on a queue that is just full.
QFullOffByOne(q, cap) == Len(q) > cap

\* Queue.full()
QFull(q, cap) == Len(q) >= cap

\* A put that evicts the oldest item of a full queue (drop-oldest).
PutDropOldest(q, x, cap) ==
    IF QFull(q, cap) THEN <<TRUE, Append(Tail(q), x)>> ELSE <<TRUE, Append(q, x)>>

\* A put that ignores maxsize.
PutUnbounded(q, x, cap) == <<TRUE, Append(q, x)>>

\* Queue.put_nowait(x): <<ok, queue after>>; ok = FALSE is queue.Full.
PutNowait(q, x, cap) ==
    IF QFull(q, cap) THEN <<FALSE, q>> ELSE <<TRUE, Append(q, x)>>

\* A get that takes the newest item (LIFO).
QueueGetNewest(q) == <<q[Len(q)], SubSeq(q, 1, Len(q) - 1)>>

\* A get that leaves the item on the queue.
QueueGetPeek(q) == <<Head(q), q>>

\* Queue.get on a non-empty queue: <<item, queue after>>.
QueueGet(q) == <<Head(q), Tail(q)>>

VARIABLES
    peers,        \* scenario: the connections that are opened in this run
    stalled,      \* scenario: the clients whose Sender thread is paused
    steady,       \* scenario: the clients whose peer stays for the whole run
    vmax, amax,   \* scenario: how many events each capture device delivers
    cameraType,   \* args.camera_type: "usb" or "rpi"
    vq, aq,       \* the ingestion queues video_queue and audio_queue
    vpc, apc,     \* where each capture producer is: "idle" or at its "put"
    vwarn, awarn, \* history: "queue full, dropping" warnings logged by each producer
    vcount,       \* video events captured so far (also the timestamp clock)
    acount,       \* audio events captured so far
    clients,      \* keys of the clients dict, in insertion order
    lock,         \* holder of clients_lock: "free", "broadcaster" or the id
                  \*          of the client whose handler holds it
    outq,         \* outq[c]: contents of client c's queue.Queue(maxsize=100)
    hpc,          \* hpc[c]: where connection handler stream(ws) of c is
    wsOpen,       \* wsOpen[c]: the peer of c's WebSocket is still there
    spc,          \* spc[c]: where client_sender_thread of c is
    smsg,         \* smsg[c]: the message the Sender holds between get and send
    bpc,          \* where broadcast_thread is: "poll", "lock", "fanout",
                  \*          "sleep" (end of iteration), "nap" (in time.sleep)
                  \*          or "crashed"
    qidx,         \* index into queues of the for loop
    bmsg,         \* the item / formatted message broadcast_thread holds
    todo,         \* rest of list(clients.items()) in the fan-out loop
    sent,         \* history: sent[c], the messages passed to ws.send that returned
    offered,      \* history: offered[c], every put_nowait of the fan-out on c
    sendFailed,   \* history: sendFailed[c], ws.send raised for c
    deq,          \* history: every item broadcast_thread dequeued, with the
                  \*          clients registered then and those among them
                  \*          whose queue had room
    iterBoth,     \* history: both ingestion queues held an event when the
                  \*          current iteration began polling
    iterDone,     \* history: kinds fanned out in the current iteration
    now,          \* what time.time() returns, in seconds since the
                  \*          Broadcaster started
    lastLog,      \* last_log_time of broadcast_thread
    jsum,         \* jpeg_size_sum of broadcast_thread
    jcount,       \* jpeg_count of broadcast_thread
    counted,      \* history: timestamps of the video events added to the
                  \*          counters since they were last reset
    report        \* history: the last periodic report logged, if any: its
                  \*          mean, the time it was made, last_log_time before
                  \*          it and the events counted for it

wsVars == <<peers, stalled, steady, vmax, amax, cameraType, now, lastLog, jsum, jcount, counted, report, vwarn, awarn, vpc, apc, vq, aq, vcount, acount, clients, lock, outq, hpc, wsOpen,
          spc, smsg, bpc, qidx, bmsg, todo, sent, offered, sendFailed, deq,
          iterBoth, iterDone>>

(***************************************************************************)
(* State of the Flask variant, src/main.py: capture puts on unbounded      *)
(* queues and every response generator gets from them.                     *)
(***************************************************************************)
VARIABLES
    seq,              \* seq of usb_video_capture_thread; with the rpi camera
                      \*   the number of frames JpegOutput.write has put
    raw_frame_queue,  \* contents of raw_frame_queue
    encoding,         \* encoding[e]: the seq jpeg_encoder_process e holds
                      \*   between in_q.get() and out_q.put(), or NoSeq
    video_buffer,     \* contents of video_buffer
    audio_buffer,     \* contents of audio_buffer
    blocks,           \* number of blocks the audio callback has put
    vgen,             \* vgen[c]: where the /video_feed generator of c is:
                      \*   "off", "get" (in video_buffer.get()), "drain"
                      \*   (at the inner while), "yield" (suspended at its
                      \*   yield) or "closed"
    frame_buffer,     \* frame_buffer[c] of gen_video_ordered: its keys
    next_frame_num,   \* next_frame_num[c] of gen_video_ordered
    yielded,          \* history: yielded[c], the frames yielded to c
    agen,             \* agen[c]: where the /audio_feed generator of c is:
                      \*   "off", "header" or "get" (in audio_buffer.get())
    ayielded          \* history: ayielded[c], the blocks yielded to c

flaskVars == <<seq, raw_frame_queue, encoding, video_buffer, audio_buffer,
               blocks, vgen, frame_buffer, next_frame_num, yielded, agen,
               ayielded>>

(***************************************************************************)
(* State of the StreamingOutput variants, src/python/main.py, src/stream.py *)
(* and src/usb.py: one frame slot under a Condition.                       *)
(***************************************************************************)
VARIABLES
    frame,        \* output.frame: NoFrame (None) or the number of the write
    condition,    \* holder of the lock of output.condition: "free",
                  \*   "writer" or the id of a handler
    written,      \* number of calls of StreamingOutput.write so far
    mpc,          \* mpc[h]: where do_GET of handler h is: "idle", "enter",
                  \*   "locked", "waiting", "woken", "read", "send", "gone"
    hframe,       \* hframe[h]: the local `frame` of handler h
    msent,        \* history: msent[h], the frames h wrote to its socket
    blocked,      \* handlers whose client has stopped reading: their
                  \*   socket write does not return
    waitedAt      \* history: waitedAt[h], the number of writes made when
                  \*   h last called output.condition.wait()

mjpegVars == <<frame, condition, written, mpc, hframe, msent, blocked,
               waitedAt>>

vars == <<wsVars, flaskVars, mjpegVars>>

\* The elements of a sequence.
Range(s) == {s[i] : i \in DOMAIN s}

\* The event a message or a capture item stands for: its kind and timestamp.
Key(m) == <<m[1], m[2]>>

\* The encoder process holds no frame.
NoSeq == -1

\* The jpeg_encoder_process workers (num_encoders of them).
Encoders == {1, 2}

\* src/main.py after the buffers are created and before any thread runs.
FlaskStart ==
    /\ seq = 0
    /\ raw_frame_queue = <<>>
    /\ encoding = [e \in Encoders |-> NoSeq]
    /\ video_buffer = <<>>
    /\ audio_buffer = <<>>
    /\ blocks = 0
    /\ vgen = [c \in ClientIds |-> "off"]
    /\ frame_buffer = [c \in ClientIds |-> {}]
    /\ next_frame_num = [c \in ClientIds |-> 0]
    /\ yielded = [c \in ClientIds |-> <<>>]
    /\ agen = [c \in ClientIds |-> "off"]
    /\ ayielded = [c \in ClientIds |-> <<>>]

\* self.frame = None of StreamingOutput.__init__; writes are numbered from 1.
NoFrame == 0

\* StreamingOutput.__init__, before any request.
MjpegStart ==
    /\ frame = NoFrame
    /\ condition = "free"
    /\ written = 0
    /\ mpc = [h \in ClientIds |-> "idle"]
    /\ hframe = [h \in ClientIds |-> NoFrame]
    /\ msent = [h \in ClientIds |-> <<>>]
    /\ blocked = {}
    /\ waitedAt = [h \in ClientIds |-> 0]

(***************************************************************************)
(* Initial state: main() has created both ingestion queues, the clients    *)
(* dict is empty and broadcast_thread is about to enter its loop.          *)
(***************************************************************************)
Start ==
    /\ cameraType \in {"usb", "rpi"}
    /\ vq = <<>> /\ aq = <<>>
    /\ vcount = 0 /\ acount = 0
    /\ vpc = "idle" /\ apc = "idle"
    /\ vwarn = 0 /\ awarn = 0
    /\ clients = <<>>
    /\ lock = "free"
    /\ outq = [c \in ClientIds |-> <<>>]
    /\ hpc = [c \in ClientIds |-> "idle"]
    /\ wsOpen = [c \in ClientIds |-> FALSE]
    /\ spc = [c \in ClientIds |-> "unstarted"]
    /\ smsg = [c \in ClientIds |-> NoItem]
    /\ bpc = "poll" /\ qidx = 1 /\ bmsg = NoItem /\ todo = <<>>
    /\ sent = [c \in ClientIds |-> <<>>]
    /\ offered = [c \in ClientIds |-> <<>>]
    /\ sendFailed = [c \in ClientIds |-> FALSE]
    /\ deq = <<>>
    /\ iterBoth = FALSE /\ iterDone = {}
    /\ now = 0 /\ lastLog = 0
    /\ jsum = 0 /\ jcount = 0
    /\ counted = <<>> /\ report = <<>>
    /\ FlaskStart
    /\ MjpegStart

\* One connection, whose Sender runs; the devices deliver up to
\* MaxVideoEvents frames and MaxAudioEvents audio blocks.
Init ==
    /\ peers = {"A"} /\ stalled = {} /\ steady = {}
    /\ vmax = MaxVideoEvents /\ amax = MaxAudioEvents
    /\ Start

\* Two connections; the Sender of A is paused for the whole run and the
\* peer of B stays for the whole run.  The devices deliver one audio block
\* and as many frames as a client queue holds: together one message more
\* than fits A's queue.
PairInit ==
    /\ peers = {"A", "B"} /\ stalled = {"A"} /\ steady = {"B"}
    /\ vmax = ClientQueueMax /\ amax = 1
    /\ Start

\* One connection, whose Sender runs; the devices deliver one audio block
\* and as many frames as a client queue holds.
SoloInit ==
    /\ peers = {"A"} /\ stalled = {} /\ steady = {}
    /\ vmax = ClientQueueMax /\ amax = 1
    /\ Start

\* One connection, whose Sender runs; each device delivers one event more
\* than its ingestion queue holds.
FloodInit ==
    /\ peers = {"A"} /\ stalled = {} /\ steady = {}
    /\ vmax = VideoQueueSize + 1 /\ amax = AudioQueueSize + 1
    /\ Start

\* Two connections, both Senders running; the peer of B stays for the
\* whole run while the peer of A may go away at any time; the devices
\* deliver one frame and one audio block.
DuoInit ==
    /\ peers = {"A", "B"} /\ stalled = {} /\ steady = {"B"}
    /\ vmax = 1 /\ amax = 1
    /\ Start

(***************************************************************************)
(* clients_lock.                                                           *)
(***************************************************************************)
\* A critical section entered without the lock.
Unguarded == TRUE

\* `with clients_lock:` of the fan-out is entered when the lock is free.
BAcquire == lock = "free"

\* `with clients_lock:` of the registration is entered when the lock is free.
RegisterAcquire == lock = "free"

\* A handler that joins its Sender thread before it enters the finally
\* block's critical section.
AcquireAfterJoin ==
    /\ lock = "free"
    /\ \A c \in ClientIds :
          (hpc[c] = "receive" /\ ~wsOpen[c]) => spc[c] = "done"

\* `with clients_lock:` of the finally block is entered when the lock is free.
CleanupAcquire == lock = "free"

(***************************************************************************)
(* Capture producers.                                                      *)
(***************************************************************************)
\* The event the configured video producer builds at time ts.
VideoEvent(ts) == IF cameraType = "usb" THEN V4l2Event(ts) ELSE RpiEvent(ts)

\* The `if not video_queue.full()` of the video producer has an else branch
\* that logs a warning: _rpi_capture has one, _v4l2_capture has none.
VideoDropWarns == cameraType = "rpi"

\* The `if not audio_queue.full()` of the audio callback has an else branch
\* that logs a warning.
AudioDropWarns == TRUE

\* One round of _v4l2_capture / _rpi_capture up to the test
\* `if not video_queue.full()`: the frame is captured; on a full queue it
\* is discarded (with the warning of the else branch, if there is one) and
\* the loop goes on, otherwise the producer goes to its put.
VideoCapture ==
    /\ vpc = "idle"
    /\ vcount < vmax
    /\ vcount' = vcount + 1
    /\ vpc' = IF QFull(vq, VideoQueueSize) THEN "idle" ELSE "put"
    /\ vwarn' = IF QFull(vq, VideoQueueSize) /\ VideoDropWarns
                THEN vwarn + 1 ELSE vwarn
    /\ UNCHANGED <<flaskVars, mjpegVars, peers, stalled, steady, vmax, amax, cameraType, now, lastLog, jsum, jcount, counted, report, awarn, vq, aq, acount, apc, clients, lock, outq, hpc, wsOpen,
                   spc, smsg, bpc, qidx, bmsg, todo, sent, offered, sendFailed,
                   deq, iterBoth, iterDone>>

\* video_queue.put(...): a blocking put, which returns once there is room.
VideoPut ==
    /\ vpc = "put"
    /\ ~QFull(vq, VideoQueueSize)
    /\ vq' = Append(vq, VideoEvent(vcount))
    /\ vpc' = "idle"
    /\ UNCHANGED <<flaskVars, mjpegVars, peers, stalled, steady, vmax, amax, cameraType, now, lastLog, jsum, jcount, counted, report, vwarn, awarn, aq, vcount, acount, apc, clients, lock, outq, hpc, wsOpen,
                   spc, smsg, bpc, qidx, bmsg, todo, sent, offered, sendFailed,
                   deq, iterBoth, iterDone>>

\* One call of the sounddevice callback up to the test
\* `if not audio_queue.full()`: on a full queue the block is discarded.
AudioCapture ==
    /\ apc = "idle"
    /\ acount < amax
    /\ acount' = acount + 1
    /\ apc' = IF QFull(aq, AudioQueueSize) THEN "idle" ELSE "put"
    /\ awarn' = IF QFull(aq, AudioQueueSize) /\ AudioDropWarns
                THEN awarn + 1 ELSE awarn
    /\ UNCHANGED <<flaskVars, mjpegVars, peers, stalled, steady, vmax, amax, cameraType, now, lastLog, jsum, jcount, counted, report, vwarn, vq, aq, vcount, vpc, clients, lock, outq, hpc, wsOpen,
                   spc, smsg, bpc, qidx, bmsg, todo, sent, offered, sendFailed,
                   deq, iterBoth, iterDone>>

\* audio_queue.put(('audio', timestamp, raw_data)): a blocking put, which
\* returns once there is room.  raw_data is the block the device delivered
\* to this call of the callback.
AudioPut ==
    /\ apc = "put"
    /\ ~QFull(aq, AudioQueueSize)
    /\ \E raw \in AudioBlocks : aq' = Append(aq, AudioEvent(acount, raw))
    /\ apc' = "idle"
    /\ UNCHANGED <<flaskVars, mjpegVars, peers, stalled, steady, vmax, amax, cameraType, now, lastLog, jsum, jcount, counted, report, vwarn, awarn, vq, vcount, acount, vpc, clients, lock, outq, hpc, wsOpen,
                   spc, smsg, bpc, qidx, bmsg, todo, sent, offered, sendFailed,
                   deq, iterBoth, iterDone>>

(***************************************************************************)
(* broadcast_thread.                                                       *)
(***************************************************************************)
\* The polling order with video first.
QueuesVideoFirst == <<"video", "audio">>

\* queues = [audio_queue, video_queue]: the polling order of one iteration.
Queues == <<"audio", "video">>

\* The contents of the ingestion queue of a kind.
IngestQ(kind) == IF kind = "audio" THEN aq ELSE vq

\* Registered clients whose queue is not full.
Roomy == {c \in Range(clients) : ~QFull(outq[c], ClientQueueMax)}

\* Where the for loop over queues goes after the queue at index i.
NextPc(i) == IF i < Len(Queues) THEN "poll" ELSE "sleep"
NextIdx(i) == IF i < Len(Queues) THEN i + 1 ELSE i

\* A fan-out loop that queue.Full leaves (the try around the for loop).
AfterPushBreak(ok, rest) == IF ok THEN rest ELSE <<>>

\* What the fan-out loop still visits after a put_nowait returned ok or
\* raised queue.Full (caught inside the loop): the rest of the snapshot.
AfterPush(ok, rest) == rest

\* `if not q.empty()` on an empty queue: on to the next queue.
BSkip ==
    /\ bpc = "poll"
    /\ IngestQ(Queues[qidx]) = <<>>
    /\ bpc' = NextPc(qidx)
    /\ qidx' = NextIdx(qidx)
    /\ iterBoth' = IF qidx = 1 THEN FALSE ELSE iterBoth
    /\ UNCHANGED <<flaskVars, mjpegVars, peers, stalled, steady, vmax, amax, cameraType, now, lastLog, jsum, jcount, counted, report, vwarn, awarn, vpc, apc, vq, aq, vcount, acount, clients, lock, outq,
                   hpc, wsOpen, spc, smsg, bmsg, todo, sent, offered,
                   sendFailed, deq, iterDone>>
\* The item is a video event that unpacks into six names, so that
\* `jpeg_size_sum += raw_size; jpeg_count += 1` are executed.
Counted(item) == item[1] = "video" /\ Len(item) = 6

\* q.get_nowait() and the formatting of the item.  An exception other than
\* queue.Empty leaves the while loop: the thread ends.
BDequeue ==
    /\ bpc = "poll"
    /\ IngestQ(Queues[qidx]) # <<>>
    /\ LET kind == Queues[qidx]
           got  == QueueGet(IngestQ(kind))
           item == got[1]
           msg  == Format(item)
       IN /\ aq' = IF kind = "audio" THEN got[2] ELSE aq
          /\ vq' = IF kind = "video" THEN got[2] ELSE vq
          /\ deq' = Append(deq, [key |-> Key(item), reg |-> Range(clients),
                               roomy |-> Roomy])
          /\ iterBoth' = IF qidx = 1 THEN (aq # <<>> /\ vq # <<>>) ELSE iterBoth
          /\ jsum' = IF Counted(item) THEN jsum + item[5] ELSE jsum
          /\ jcount' = IF Counted(item) THEN jcount + 1 ELSE jcount
          /\ counted' = IF Counted(item) THEN Append(counted, item[2])
                        ELSE counted
          /\ IF msg = Raise
             THEN /\ bpc' = "crashed"
                  /\ bmsg' = item
                  /\ qidx' = qidx
             ELSE IF msg = <<>>
             THEN /\ bpc' = NextPc(qidx)
                  /\ qidx' = NextIdx(qidx)
                  /\ bmsg' = NoItem
             ELSE /\ bpc' = "lock"
                  /\ bmsg' = msg
                  /\ qidx' = qidx
    /\ UNCHANGED <<flaskVars, mjpegVars, peers, stalled, steady, vmax, amax, cameraType, now, lastLog, report, vwarn, awarn, vpc, apc, vcount, acount, clients, lock, outq, hpc,
                   wsOpen, spc, smsg, todo, sent, offered, sendFailed,
                   iterDone>>

\* with clients_lock: ... list(clients.items())
BLock ==
    /\ bpc = "lock"
    /\ BAcquire
    /\ lock' = "broadcaster"
    /\ todo' = clients
    /\ bpc' = "fanout"
    /\ UNCHANGED <<flaskVars, mjpegVars, peers, stalled, steady, vmax, amax, cameraType, now, lastLog, jsum, jcount, counted, report, vwarn, awarn, vpc, apc, vq, aq, vcount, acount, clients, outq, hpc,
                   wsOpen, spc, smsg, qidx, bmsg, sent, offered, sendFailed,
                   deq, iterBoth, iterDone>>

\* The fan-out loop over the snapshot: put_nowait(message) on each client's
\* queue in turn, queue.Full logged and ignored.  Yields the client queues
\* and the record of the puts after the loop.
RECURSIVE FanOut(_, _, _, _)
FanOut(rest, msg, qs, off) ==
    IF rest = <<>> THEN <<qs, off>>
    ELSE LET c == Head(rest)
             r == PutNowait(qs[c], msg, ClientQueueMax)
         IN FanOut(AfterPush(r[1], Tail(rest)), msg,
                   [qs EXCEPT ![c] = r[2]],
                   [off EXCEPT ![c] = Append(@, [msg |-> msg, ok |-> r[1]])])

\* The body of the with block, and leaving it: the lock is released and the
\* for loop goes on to the next queue.
BFanout ==
    /\ bpc = "fanout"
    /\ LET r == FanOut(todo, bmsg, outq, offered)
       IN /\ outq' = r[1]
          /\ offered' = r[2]
    /\ todo' = <<>>
    /\ lock' = "free"
    /\ iterDone' = iterDone \cup {bmsg[1]}
    /\ bmsg' = NoItem
    /\ bpc' = NextPc(qidx)
    /\ qidx' = NextIdx(qidx)
    /\ UNCHANGED <<flaskVars, mjpegVars, peers, stalled, steady, vmax, amax, cameraType, now, lastLog, jsum, jcount, counted, report, vwarn, awarn, vpc, apc, vq, aq, vcount, acount, clients, hpc, wsOpen,
                   spc, smsg, sent, sendFailed, deq, iterBoth>>

\* A loop that sleeps at the end of every iteration.
\* The reporting interval of the periodic log, in seconds.
ReportInterval == 10

ReportDueAtInterval(elapsed) == elapsed >= ReportInterval

\* `if current_time - last_log_time > 10`
ReportDue(elapsed) == elapsed > ReportInterval

AvgUnguarded(sum, count) == <<sum, count * 1024>>

\* avg_jpeg_size_kb = (jpeg_size_sum / jpeg_count / 1024) if jpeg_count > 0
\* else 0: the quotient as a fraction <<numerator, denominator>>; a zero
\* denominator stands for the ZeroDivisionError.
AvgJpegSizeKb(sum, count) ==
    IF count > 0 THEN <<sum, count * 1024>> ELSE <<0, 1>>

SleepAlways == TRUE

\* `if audio_queue.empty() and video_queue.empty():` before time.sleep.
SleepCondition == aq = <<>> /\ vq = <<>>

\* End of an iteration, after the for loop over the queues: the periodic
\* report, which resets the counters, and the test for the sleep;
\* time.sleep(0.001) is entered if both queues are empty,
\* otherwise the while loop goes straight back to its top.
BSleep ==
    /\ bpc = "sleep"
    /\ LET due == ReportDue(now - lastLog)
       IN /\ report' = IF due
                       THEN <<[mean |-> AvgJpegSizeKb(jsum, jcount),
                               at |-> now, prev |-> lastLog,
                               counted |-> counted]>>
                       ELSE report
          /\ lastLog' = IF due THEN now ELSE lastLog
          /\ jsum' = IF due THEN 0 ELSE jsum
          /\ jcount' = IF due THEN 0 ELSE jcount
          /\ counted' = IF due THEN <<>> ELSE counted
    /\ bpc' = IF SleepCondition THEN "nap" ELSE "poll"
    /\ qidx' = 1
    /\ iterBoth' = FALSE
    /\ iterDone' = {}
    /\ UNCHANGED <<flaskVars, mjpegVars, peers, stalled, steady, vmax, amax, cameraType, now, vwarn, awarn, vpc, apc, vq, aq, vcount, acount, clients, lock, outq,
                   hpc, wsOpen, spc, smsg, bmsg, todo, sent, offered,
                   sendFailed, deq>>

\* time.sleep(0.001) returns: back to the top of the while loop.
BWake ==
    /\ bpc = "nap"
    /\ bpc' = "poll"
    /\ UNCHANGED <<flaskVars, mjpegVars, peers, stalled, steady, vmax, amax, cameraType, now, lastLog, jsum, jcount, counted, report, vwarn, awarn, vpc, apc, vq, aq, vcount, acount, clients, lock, outq,
                   hpc, wsOpen, spc, smsg, qidx, bmsg, todo, sent, offered,
                   sendFailed, deq, iterBoth, iterDone>>

Broadcaster == BSkip \/ BDequeue \/ BLock \/ BFanout \/ BSleep \/ BWake

(***************************************************************************)
(* The connection handler stream(ws) of one client, and its transport.     *)
(***************************************************************************)
\* A finally block that empties the queue before it puts the sentinel.
SignalClearing(q) == <<None>>

\* A finally block that signals nothing.
SignalNothing(q) == q

\* The finally block's signal to the Sender: put_nowait(None), queue.Full
\* ignored.
SignalTerminate(q) == PutNowait(q, None, ClientQueueMax)[2]

\* A peer connects: flask-sock calls stream(ws), which creates the client's
\* queue and its (not yet started) sender thread and enters
\* `with clients_lock:`.
HConnect(c) ==
    /\ c \in peers
    /\ hpc[c] = "idle"
    /\ RegisterAcquire
    /\ lock' = c
    /\ hpc' = [hpc EXCEPT ![c] = "register"]
    /\ wsOpen' = [wsOpen EXCEPT ![c] = TRUE]
    /\ outq' = [outq EXCEPT ![c] = <<>>]
    /\ UNCHANGED <<flaskVars, mjpegVars, peers, stalled, steady, vmax, amax, cameraType, now, lastLog, jsum, jcount, counted, report, vwarn, awarn, vpc, apc, vq, aq, vcount, acount, clients, spc, smsg,
                   bpc, qidx, bmsg, todo, sent, offered, sendFailed, deq,
                   iterBoth, iterDone>>

\* clients[client_id] = {...} inside the with block, and leaving it.
HRegister(c) ==
    /\ hpc[c] = "register"
    /\ clients' = Append(clients, c)
    /\ lock' = "free"
    /\ hpc' = [hpc EXCEPT ![c] = "start"]
    /\ UNCHANGED <<flaskVars, mjpegVars, peers, stalled, steady, vmax, amax, cameraType, now, lastLog, jsum, jcount, counted, report, vwarn, awarn, vpc, apc, vq, aq, vcount, acount, outq, wsOpen, spc,
                   smsg, bpc, qidx, bmsg, todo, sent, offered, sendFailed, deq,
                   iterBoth, iterDone>>

\* A Sender that starts on a queue of its own.
FreshQueueAtStart(q) == <<>>

\* Thread(target=client_sender_thread, args=(ws, client_queue)): the Sender
\* works on the queue that was registered, with what it holds at the start.
QueueAtStart(q) == q

\* sender_thread.start()
HStart(c) ==
    /\ hpc[c] = "start"
    /\ spc' = [spc EXCEPT ![c] = "get"]
    /\ hpc' = [hpc EXCEPT ![c] = "receive"]
    /\ outq' = [outq EXCEPT ![c] = QueueAtStart(@)]
    /\ UNCHANGED <<flaskVars, mjpegVars, peers, stalled, steady, vmax, amax, cameraType, now, lastLog, jsum, jcount, counted, report, vwarn, awarn, vpc, apc, vq, aq, vcount, acount, clients, lock,
                   wsOpen, smsg, bpc, qidx, bmsg, todo, sent, offered,
                   sendFailed, deq, iterBoth, iterDone>>

\* The peer goes away (closes, or its connection drops).
PeerClose(c) ==
    /\ c \notin steady
    /\ hpc[c] # "idle"
    /\ wsOpen[c]
    /\ wsOpen' = [wsOpen EXCEPT ![c] = FALSE]
    /\ UNCHANGED <<flaskVars, mjpegVars, peers, stalled, steady, vmax, amax, cameraType, now, lastLog, jsum, jcount, counted, report, vwarn, awarn, vpc, apc, vq, aq, vcount, acount, clients, lock, outq,
                   hpc, spc, smsg, bpc, qidx, bmsg, todo, sent, offered,
                   sendFailed, deq, iterBoth, iterDone>>

\* A cleanup without the test `if client_id in clients`.
CleanupUnchecked(cl, qs, c) ==
    <<SelectSeq(cl, LAMBDA x : x # c), [qs EXCEPT ![c] = SignalTerminate(@)]>>

\* The body of the finally block's with block on the registry cl and the
\* client queues qs: if client_id in clients: put_nowait(None) (queue.Full
\* ignored); del clients[client_id].  Yields <<registry, queues>> after.
Cleanup(cl, qs, c) ==
    IF c \in Range(cl)
    THEN <<SelectSeq(cl, LAMBDA x : x # c),
           [qs EXCEPT ![c] = SignalTerminate(@)]>>
    ELSE <<cl, qs>>

\* A handler that leaves its receive loop whether or not the peer is gone.
ReceiveEndsLoop(c) == TRUE

\* ws.receive() raises: the peer is gone.
ReceiveRaises(c) == ~wsOpen[c]

\* ws.receive() raises once the peer is gone: the while loop is left for
\* the except and finally blocks, and finally enters `with clients_lock:`.
HDisconnect(c) ==
    /\ hpc[c] = "receive"
    /\ ReceiveRaises(c)
    /\ CleanupAcquire
    /\ lock' = c
    /\ hpc' = [hpc EXCEPT ![c] = "cleanup"]
    /\ UNCHANGED <<flaskVars, mjpegVars, peers, stalled, steady, vmax, amax, cameraType, now, lastLog, jsum, jcount, counted, report, vwarn, awarn, vpc, apc, vq, aq, vcount, acount, clients, outq, wsOpen,
                   spc, smsg, bpc, qidx, bmsg, todo, sent, offered, sendFailed,
                   deq, iterBoth, iterDone>>

\* The with block of finally, and leaving it: the handler returns.
HCleanup(c) ==
    /\ hpc[c] = "cleanup"
    /\ LET r == Cleanup(clients, outq, c)
       IN /\ clients' = r[1]
          /\ outq' = r[2]
    /\ lock' = "free"
    /\ hpc' = [hpc EXCEPT ![c] = "closed"]
    /\ UNCHANGED <<flaskVars, mjpegVars, peers, stalled, steady, vmax, amax, cameraType, now, lastLog, jsum, jcount, counted, report, vwarn, awarn, vpc, apc, vq, aq, vcount, acount, wsOpen, spc, smsg,
                   bpc, qidx, bmsg, todo, sent, offered, sendFailed, deq,
                   iterBoth, iterDone>>

(***************************************************************************)
(* client_sender_thread of one client.                                     *)
(***************************************************************************)
\* A Sender that leaves its loop on queue.Empty.
OnQueueEmptyBreak == "done"

\* except queue.Empty: pass -- the loop goes on to the next get.
OnQueueEmpty == "get"

\* A Sender that swallows the send error and goes on.
OnSendErrorContinue == "get"

\* except Exception: log and break.
OnSendError == "done"

\* A Sender that treats the sentinel as a message.
EndsSenderNever(item) == FALSE

\* `if message is None: break`
EndsSender(item) == item = None

\* client_queue.get(timeout=1) returns an item: None ends the thread.
SGet(c) ==
    /\ c \notin stalled
    /\ spc[c] = "get"
    /\ outq[c] # <<>>
    /\ LET got == QueueGet(outq[c])
       IN /\ outq' = [outq EXCEPT ![c] = got[2]]
          /\ IF EndsSender(got[1])
             THEN /\ spc' = [spc EXCEPT ![c] = "done"]
                  /\ smsg' = smsg
             ELSE /\ spc' = [spc EXCEPT ![c] = "send"]
                  /\ smsg' = [smsg EXCEPT ![c] = got[1]]
    /\ UNCHANGED <<flaskVars, mjpegVars, peers, stalled, steady, vmax, amax, cameraType, now, lastLog, jsum, jcount, counted, report, vwarn, awarn, vpc, apc, vq, aq, vcount, acount, clients, lock, hpc,
                   wsOpen, bpc, qidx, bmsg, todo, sent, offered, sendFailed,
                   deq, iterBoth, iterDone>>

\* client_queue.get(timeout=1) times out on an empty queue: queue.Empty.
STimeout(c) ==
    /\ c \notin stalled
    /\ spc[c] = "get"
    /\ outq[c] = <<>>
    /\ spc' = [spc EXCEPT ![c] = OnQueueEmpty]
    /\ UNCHANGED <<flaskVars, mjpegVars, peers, stalled, steady, vmax, amax, cameraType, now, lastLog, jsum, jcount, counted, report, vwarn, awarn, vpc, apc, vq, aq, vcount, acount, clients, lock, outq,
                   hpc, wsOpen, smsg, bpc, qidx, bmsg, todo, sent, offered,
                   sendFailed, deq, iterBoth, iterDone>>

\* ws.send(message): delivers while the peer is there, raises once it is
\* gone.
SSend(c) ==
    /\ c \notin stalled
    /\ spc[c] = "send"
    /\ IF wsOpen[c]
       THEN /\ sent' = [sent EXCEPT ![c] = Append(@, smsg[c])]
            /\ spc' = [spc EXCEPT ![c] = "get"]
            /\ sendFailed' = sendFailed
       ELSE /\ sent' = sent
            /\ spc' = [spc EXCEPT ![c] = OnSendError]
            /\ sendFailed' = [sendFailed EXCEPT ![c] = TRUE]
    /\ smsg' = [smsg EXCEPT ![c] = NoItem]
    /\ UNCHANGED <<flaskVars, mjpegVars, peers, stalled, steady, vmax, amax, cameraType, now, lastLog, jsum, jcount, counted, report, vwarn, awarn, vpc, apc, vq, aq, vcount, acount, clients, lock, outq,
                   hpc, wsOpen, bpc, qidx, bmsg, todo, offered, deq, iterBoth,
                   iterDone>>

Sender(c) == SGet(c) \/ STimeout(c) \/ SSend(c)

Handler(c) == HRegister(c) \/ HStart(c) \/ HDisconnect(c) \/ HCleanup(c)

(***************************************************************************)
(* The system.                                                             *)
(***************************************************************************)
Next ==
    \/ VideoCapture
    \/ VideoPut
    \/ AudioCapture
    \/ AudioPut
    \/ Broadcaster
    \/ \E c \in ClientIds : HConnect(c)
    \/ \E c \in ClientIds : PeerClose(c)
    \/ \E c \in ClientIds : Handler(c)
    \/ \E c \in ClientIds : Sender(c)

Spec == Init /\ [][Next]_vars

\* Every started thread keeps being scheduled: the Broadcaster, each
\* connection handler and each Sender take their next step when they can.
\* Producers and peers owe nothing.
Fairness ==
    /\ WF_vars(Broadcaster)
    /\ \A c \in ClientIds : WF_vars(Handler(c))
    /\ \A c \in ClientIds : WF_vars(Sender(c))

FairSpec == Spec /\ Fairness

PairSpec == PairInit /\ [][Next]_vars

PairFairSpec == PairSpec /\ Fairness

FloodSpec == FloodInit /\ [][Next]_vars

SoloSpec == SoloInit /\ [][Next]_vars

SoloFairSpec == SoloSpec /\ Fairness

DuoSpec == DuoInit /\ [][Next]_vars

DuoFairSpec == DuoSpec /\ Fairness

(***************************************************************************)
(* Notions the properties are stated in.                                   *)
(***************************************************************************)
\* The messages of the fan-out's puts on c, in order (accepted or not).
OfferedMsgs(c) == [i \in DOMAIN offered[c] |-> offered[c][i].msg]

\* The messages the Broadcaster enqueued to c: the puts that succeeded.
RECURSIVE Accepted(_)
Accepted(off) ==
    IF off = <<>> THEN <<>>
    ELSE (IF Head(off).ok THEN <<Head(off).msg>> ELSE <<>>)
         \o Accepted(Tail(off))

Enqueued(c) == Accepted(offered[c])

\* s is a subsequence of t (same order, gaps allowed).
RECURSIVE IsSubseq(_, _)
IsSubseq(s, t) ==
    IF s = <<>> THEN TRUE
    ELSE IF t = <<>> THEN FALSE
    ELSE IF Head(s) = Head(t) THEN IsSubseq(Tail(s), Tail(t))
    ELSE IsSubseq(s, Tail(t))

\* The timestamps of the messages of one kind, in the order of the sequence.
RECURSIVE StampsOf(_, _)
StampsOf(kind, s) ==
    IF s = <<>> THEN <<>>
    ELSE (IF Head(s)[1] = kind THEN <<Head(s)[2]>> ELSE <<>>)
         \o StampsOf(kind, Tail(s))

\* Timestamps are the order in which a producer put its events on its
\* ingestion queue: increasing stamps are that order.
Increasing(t) == \A i, j \in DOMAIN t : i < j => t[i] < t[j]

\* The Sender of c has dequeued nothing so far.
NeverDequeued(c) ==
    /\ spc[c] \in {"unstarted", "get"}
    /\ sent[c] = <<>>
    /\ ~sendFailed[c]

\* The message of event k was enqueued to c.
WasEnqueued(c, k) ==
    \E i \in DOMAIN offered[c] : offered[c][i].ok /\ Key(offered[c][i].msg) = k

(***************************************************************************)
(* C1.  Egress overflow.                                                   *)
(***************************************************************************)
\* C1 (as claimed): once the Broadcaster has fanned out N+1 messages to a
\* registered client whose Sender never dequeues (N = queue capacity), the
\* client's queue holds the messages 2..N+1 in order: the oldest was evicted.
C1_DropOldest ==
    \A c \in Range(clients) :
        (NeverDequeued(c) /\ Len(offered[c]) = ClientQueueMax + 1)
        => outq[c] = SubSeq(OfferedMsgs(c), 2, ClientQueueMax + 1)

\* C1 (amended): once the Broadcaster has fanned out N+1 or more messages to
\* a registered client whose Sender never dequeues, the client's queue holds
\* exactly the first N of them in order: every later message was dropped.
C1_DropNewest ==
    \A c \in Range(clients) :
        (NeverDequeued(c) /\ Len(offered[c]) >= ClientQueueMax + 1)
        => outq[c] = SubSeq(OfferedMsgs(c), 1, ClientQueueMax)

\* N+1 messages were fanned out to a registered client that never dequeued.
C1_Witness ==
    \E c \in Range(clients) :
        NeverDequeued(c) /\ Len(offered[c]) = ClientQueueMax + 1

(***************************************************************************)
(* C2.  Isolation of a healthy client from a stalled one.                  *)
(***************************************************************************)
\* C2: with a stalled client A and a client B both registered, whenever the
\* Broadcaster is between events (or has ended), every event it dequeued
\* while B had room in its queue has been enqueued to B, whatever the state
\* of A's queue.
C2_Isolation ==
    bpc \in {"poll", "sleep", "nap", "crashed"} =>
        \A i \in DOMAIN deq :
            \A c \in (deq[i].roomy \cap Range(clients)) \ stalled :
                (stalled # {} /\ stalled \subseteq deq[i].reg)
                => WasEnqueued(c, deq[i].key)

(***************************************************************************)
(* C3.  Client queues are bounded.                                         *)
(***************************************************************************)
\* C3: no client queue ever holds more items than its capacity.
C3_QueueBounded == \A c \in ClientIds : Len(outq[c]) <= ClientQueueMax

\* A queue is at capacity and a put on it was refused.
C3_Witness ==
    \E c \in ClientIds :
        /\ Len(outq[c]) = ClientQueueMax
        /\ \E i \in DOMAIN offered[c] : ~offered[c][i].ok

(***************************************************************************)
(* C4.  The Broadcaster loop survives every event the producers emit.      *)
(***************************************************************************)
\* C4: broadcast_thread never terminates: no dequeued event ends its loop.
C4_BroadcasterRuns == bpc # "crashed"

(***************************************************************************)
(* C5.  Per-client ordering.                                               *)
(***************************************************************************)
\* C5: for every client, what its Sender passed to the transport is a
\* subsequence of what the Broadcaster enqueued to it, and the enqueued
\* messages of each kind are in the order their events were put on that
\* kind's ingestion queue.
C5_Ordering ==
    \A c \in ClientIds :
        /\ IsSubseq(sent[c], Enqueued(c))
        /\ Increasing(StampsOf("video", Enqueued(c)))
        /\ Increasing(StampsOf("audio", Enqueued(c)))
        /\ Increasing(StampsOf("video", sent[c]))
        /\ Increasing(StampsOf("audio", sent[c]))

\* Three video events t=1,2,3 and no audio reached a client as exactly three
\* messages in that order.
C5_Witness ==
    \E c \in ClientIds :
        /\ acount = 0
        /\ Len(sent[c]) = 3
        /\ StampsOf("video", sent[c]) = <<1, 2, 3>>

(***************************************************************************)
(* C6.  Audio before video.                                                *)
(***************************************************************************)
\* C6: in an iteration that began with an event pending on both ingestion
\* queues, the Broadcaster holds a dequeued video event only after it has
\* dequeued, formatted and fanned out the audio event.
C6_AudioFirst ==
    (bmsg # NoItem /\ bmsg[1] = "video" /\ iterBoth) => "audio" \in iterDone

\* Both were pending, the audio event was fanned out and the video event is
\* now being fanned out.
C6_Witness ==
    /\ bpc = "fanout" /\ bmsg[1] = "video"
    /\ iterBoth /\ "audio" \in iterDone

(***************************************************************************)
(* C7.  Fan-out.                                                           *)
(***************************************************************************)
\* C7: one fan-out makes exactly one put of the message on the queue of each
\* client then registered, and none on any other queue; a refused put does
\* not end the loop.
C7_FanOutOnce ==
    [][ (bpc = "fanout" /\ bpc' # "fanout") =>
          \A c \in ClientIds :
             IF c \in Range(clients)
             THEN /\ Len(offered'[c]) = Len(offered[c]) + 1
                  /\ offered'[c][Len(offered'[c])].msg = bmsg
             ELSE offered'[c] = offered[c] ]_vars

\* A's put was refused and B, after A in the registry, was still offered
\* the same message.
C7_Witness ==
    /\ clients = <<"A", "B">>
    /\ offered["A"] # <<>> /\ offered["B"] # <<>>
    /\ ~offered["A"][Len(offered["A"])].ok
    /\ offered["B"][Len(offered["B"])].msg = offered["A"][Len(offered["A"])].msg

C8_SenderExits ==
    \A c \in ClientIds : (hpc[c] = "closed") ~> (spc[c] = "done")

\* The cleanup ran on a full queue (no sentinel was enqueued) and the Sender
\* has ended, by a send that raised.
C8_Witness ==
    \E c \in ClientIds :
        /\ hpc[c] = "closed" /\ spc[c] = "done" /\ sendFailed[c]
        /\ \A i \in DOMAIN outq[c] : outq[c][i] # None

(***************************************************************************)
(* C9.  Client transport failure.                                          *)
(***************************************************************************)
\* C9: the step in which ws.send raises for a client ends that client's
\* Sender and changes neither the Broadcaster's position nor any other
\* Sender; and after it the client is eventually out of the registry.
C9_SendFailure ==
    /\ [][ \A c \in ClientIds :
             (sendFailed'[c] /\ ~sendFailed[c]) =>
                /\ spc'[c] = "done"
                /\ bpc' = bpc /\ lock' = lock
                /\ \A d \in ClientIds \ {c} :
                      spc'[d] = spc[d] /\ outq'[d] = outq[d] ]_vars
    /\ \A c \in ClientIds :
          sendFailed[c] ~> (spc[c] = "done" /\ c \notin Range(clients))

\* A send raised for client c, which is now ended and unregistered; an
\* event dequeued after c had been offered one, when c was out of the
\* registry, was sent to the other client d, whose Sender is running.
C9_Witness ==
    \E c \in ClientIds : \E d \in ClientIds \ {c} :
        /\ sendFailed[c] /\ spc[c] = "done" /\ c \notin Range(clients)
        /\ d \in Range(clients) /\ spc[d] = "get"
        /\ \E i, j \in DOMAIN deq :
              /\ i < j
              /\ \E n \in DOMAIN offered[c] : Key(offered[c][n].msg) = deq[i].key
              /\ c \notin deq[j].reg
              /\ \E n \in DOMAIN sent[d] : Key(sent[d][n]) = deq[j].key

(***************************************************************************)
(* C11.  The fan-out works on a snapshot of the registry.                  *)
(***************************************************************************)
\* C11: the fan-out visits exactly the clients that were in the registry
\* when it took the lock: while it holds its snapshot the registry equals
\* the snapshot, so a registration or an unregistration that runs
\* concurrently is entirely in the snapshot or entirely after it, and the
\* puts of the fan-out go to the clients of the snapshot and to no other.
C11_RegistrySnapshot ==
    /\ [](bpc = "fanout" => todo = clients)
    /\ [][ (bpc # "fanout" /\ bpc' = "fanout") =>
              (todo' = clients /\ clients' = clients) ]_vars
    /\ [][ (bpc = "fanout" /\ bpc' # "fanout") =>
              /\ {c \in ClientIds : Len(offered'[c]) > Len(offered[c])}
                    = Range(todo)
              /\ clients' = clients ]_vars

\* A fan-out in progress on the snapshot <<A>> while A's handler waits to
\* unregister (its peer is gone) and B has not registered yet.
C11_Witness ==
    /\ bpc = "fanout" /\ todo = <<"A">>
    /\ hpc["A"] = "receive" /\ ~wsOpen["A"]
    /\ hpc["B"] = "idle"

(***************************************************************************)
(* C12.  Mutual exclusion on the registry.                                 *)
(***************************************************************************)
\* The actors that are inside a `with clients_lock:` block.
InCriticalSection ==
    (IF bpc = "fanout" THEN {"broadcaster"} ELSE {})
    \cup {c \in ClientIds : hpc[c] \in {"register", "cleanup"}}

\* C12: at most one actor is inside a registry critical section at any
\* time, and it is the holder of clients_lock; every insertion into and
\* deletion from the clients dict, and every snapshot the fan-out reads
\* from it, is made by the holder of the lock from inside its section.
C12_MutualExclusion ==
    /\ [](/\ Cardinality(InCriticalSection) <= 1
          /\ \A a \in InCriticalSection : lock = a
          /\ (InCriticalSection = {} => lock = "free"))
    /\ [][ clients' # clients =>
              (lock \in ClientIds /\ InCriticalSection = {lock}) ]_vars
    /\ [][ todo' # todo =>
              (lock' = "broadcaster" \/ lock = "broadcaster") ]_vars

\* A's handler is inside the finally block's critical section while the
\* Broadcaster waits for the lock with a message to fan out and B's
\* registration has not begun.
C12_Witness ==
    /\ hpc["A"] = "cleanup" /\ lock = "A"
    /\ bpc = "lock"
    /\ hpc["B"] = "idle"

(***************************************************************************)
(* C13.  Unregistering is idempotent.                                      *)
(***************************************************************************)
\* C13: in every state, the cleanup of the finally block applied to a
\* client id that is not in the registry leaves the registry and every
\* client queue as they are; and applied twice to any client id it yields
\* what one application yields.
C13_UnregisterIdempotent ==
    \A c \in ClientIds :
        /\ c \notin Range(clients) =>
              Cleanup(clients, outq, c) = <<clients, outq>>
        /\ LET once == Cleanup(clients, outq, c)
           IN Cleanup(once[1], once[2], c) = once

\* A's cleanup has run: A is out of the registry, its queue has room for
\* another sentinel, and B is registered with a message in its queue.
C13_Witness ==
    /\ hpc["A"] = "closed" /\ "A" \notin Range(clients)
    /\ Len(outq["A"]) < ClientQueueMax
    /\ "B" \in Range(clients) /\ outq["B"] # <<>>

(***************************************************************************)
(* C14.  Nothing is enqueued to a client after its cleanup.                *)
(***************************************************************************)
\* C14: once the cleanup has deleted a client from the registry, the
\* fan-out makes no further put on that client's queue and the queue only
\* shrinks; and a sentinel is always the last item of the queue it is in:
\* nothing is placed behind it.
C14_NothingAfterCleanup ==
    /\ [][ \A c \in ClientIds :
             hpc[c] = "closed" =>
                /\ offered'[c] = offered[c]
                /\ (outq'[c] = outq[c] \/ outq'[c] = Tail(outq[c])) ]_vars
    /\ [](\A c \in ClientIds : \A i \in DOMAIN outq[c] :
             outq[c][i] = None => i = Len(outq[c]))

\* A was deleted with a message still in its queue and the sentinel behind
\* it; an event dequeued after that was fanned out to B alone.
C14_Witness ==
    /\ hpc["A"] = "closed"
    /\ Len(outq["A"]) >= 2 /\ outq["A"][Len(outq["A"])] = None
    /\ \E j \in DOMAIN deq :
          /\ "A" \notin deq[j].reg
          /\ \E i \in 1..(j - 1) : "A" \in deq[i].reg
          /\ \E n \in DOMAIN offered["B"] :
                Key(offered["B"][n].msg) = deq[j].key

(***************************************************************************)
(* C15.  Sends after the removal from the registry.                        *)
(***************************************************************************)
\* C15 (as claimed): once a client has been removed from the registry, its
\* Sender makes no call of ws.send: no message is passed to the transport.
C15_NoSendAfterRemoval ==
    [][ \A c \in ClientIds :
          (hpc[c] = "closed" /\ spc[c] = "send") => spc'[c] = "send" ]_vars

\* C15 (amended): once a client has been removed from the registry, no
\* message is delivered to it; a call of ws.send its Sender still makes for
\* a message dequeued earlier raises and ends the Sender.
C15_NoDeliveryAfterRemoval ==
    [][ \A c \in ClientIds :
          hpc[c] = "closed" =>
             /\ sent'[c] = sent[c]
             /\ (spc[c] = "send" /\ spc'[c] # "send") =>
                   (spc'[c] = "done" /\ sendFailed'[c]) ]_vars

\* A removed client whose Sender, having delivered a message before, holds
\* a dequeued message and is about to call ws.send.
C15_Witness ==
    \E c \in ClientIds :
        /\ hpc[c] = "closed" /\ c \notin Range(clients)
        /\ spc[c] = "send" /\ smsg[c] # NoItem
        /\ sent[c] # <<>>

(***************************************************************************)
(* C16.  Messages enqueued between registration and Sender start.          *)
(***************************************************************************)
\* The messages in a client queue, without the sentinel.
NonSentinel(q) == SelectSeq(q, LAMBDA x : x # None)

\* The message the Sender of c holds between its get and its send, if any.
Held(c) == IF smsg[c] = NoItem THEN <<>> ELSE <<smsg[c]>>

\* C16: a client is in the registry when its Sender is started, and from
\* the registration on no message the fan-out enqueued to it is lost: the
\* messages the Sender has delivered, the one it holds and the ones still
\* queued are, in this order, exactly the messages enqueued (less the one
\* message whose send raised, if a send raised).  In particular, until the
\* Sender is started the queue holds every message enqueued so far.
C16_ConnectRace ==
    /\ [][ \A c \in ClientIds :
             (spc[c] = "unstarted" /\ spc'[c] # "unstarted") =>
                c \in Range(clients) ]_vars
    /\ [](\A c \in ClientIds :
            LET enq  == Enqueued(c)
                rest == NonSentinel(outq[c])
            IN IF sendFailed[c]
               THEN /\ Len(enq) = Len(sent[c]) + 1 + Len(rest)
                    /\ sent[c] = SubSeq(enq, 1, Len(sent[c]))
                    /\ rest = SubSeq(enq, Len(sent[c]) + 2, Len(enq))
               ELSE sent[c] \o Held(c) \o rest = enq)

\* A registered client whose Sender is not started yet has two messages in
\* its queue.
C16_Witness ==
    \E c \in Range(clients) :
        /\ hpc[c] = "start" /\ spc[c] = "unstarted"
        /\ Len(outq[c]) = 2 /\ outq[c] = Enqueued(c)

(***************************************************************************)
(* C17.  Ingestion overflow.                                               *)
(***************************************************************************)
\* C17: neither ingestion queue ever holds more events than its capacity;
\* a producer that finds its queue full discards the new event and goes on
\* with the next one; and whenever a producer is at its blocking put, the
\* queue has a free slot, whatever the Broadcaster did since the full()
\* test: the put never blocks.
C17_IngestionOverflow ==
    /\ [](/\ Len(vq) <= VideoQueueSize
          /\ Len(aq) <= AudioQueueSize
          /\ (vpc = "put" => Len(vq) < VideoQueueSize)
          /\ (apc = "put" => Len(aq) < AudioQueueSize))
    /\ [][ /\ (vcount' # vcount /\ Len(vq) = VideoQueueSize) =>
                 (vq' = vq /\ vpc' = "idle")
           /\ (acount' # acount /\ Len(aq) = AudioQueueSize) =>
                 (aq' = aq /\ apc' = "idle") ]_vars

\* Both queues are full, the Broadcaster has dequeued nothing, and each
\* producer discarded its latest event and is ready for the next.
C17_Witness ==
    /\ Len(vq) = VideoQueueSize /\ vcount = VideoQueueSize + 1
    /\ Len(aq) = AudioQueueSize /\ acount = AudioQueueSize + 1
    /\ vpc = "idle" /\ apc = "idle"
    /\ deq = <<>>

(***************************************************************************)
(* C18.  Neither kind starves the other.                                   *)
(***************************************************************************)
\* The event of kind and timestamp k is on its ingestion queue.
OnIngestQ(k) ==
    \E i \in DOMAIN IngestQ(k[1]) : Key(IngestQ(k[1])[i]) = k

\* The Broadcaster has dequeued the event k and finished its fan-out.
FannedOut(k) ==
    \E i \in DOMAIN deq :
        /\ deq[i].key = k
        /\ (i < Len(deq) \/ bpc \in {"poll", "sleep", "nap"})

\* C18: with a Broadcaster that keeps being scheduled, if the video
\* producer never emits, every audio event put on the audio queue is
\* eventually dequeued and fanned out; and if the audio producer never
\* emits, every video event put on the video queue is.
C18_NoStarvation ==
    /\ ([](vcount = 0)) =>
          \A t \in 1..MaxAudioEvents :
             OnIngestQ(<<"audio", t>>) ~> FannedOut(<<"audio", t>>)
    /\ ([](acount = 0)) =>
          \A t \in 1..MaxVideoEvents :
             OnIngestQ(<<"video", t>>) ~> FannedOut(<<"video", t>>)

(***************************************************************************)
(* C19.  Reading a message back gives the event.                           *)
(***************************************************************************)
\* What was captured for an event on an ingestion queue: kind, timestamp,
\* (width, height,) and the bytes the device delivered.
Captured(item) ==
    IF item[1] = "video"
    THEN <<"video", item[2], item[3], item[4], Frame(item[2])>>
    ELSE item

\* The events that are on the ingestion queues.
Pending == Range(vq) \cup Range(aq)

\* C19: for every event a producer has put on its ingestion queue the
\* Broadcaster builds a message, and reading that message back gives
\* exactly the captured timestamp, (width, height,) and payload bytes;
\* two distinct events never give the same message.
C19_RoundTrip ==
    /\ \A item \in Pending :
          /\ Format(item) # Raise
          /\ Decode(Wire(Format(item))) = Captured(item)
    /\ \A e1, e2 \in Pending :
          e1 # e2 => Wire(Format(e1)) # Wire(Format(e2))

(***************************************************************************)
(* C20.  Layout of a message.                                              *)
(***************************************************************************)
\* The text of the i-th message delivered to c.
SentText(c, i) == Wire(sent[c][i])

\* C20 (as claimed): every message delivered to a client starts with a
\* one-byte kind tag, 'V' for video and 'A' for audio, and the header
\* follows directly: the second character belongs to the timestamp.
C20_TagByteLayout ==
    \A c \in ClientIds : \A i \in DOMAIN sent[c] :
        /\ SentText(c, i)[1] = (IF sent[c][i][1] = "video" THEN 86 ELSE 65)
        /\ SentText(c, i)[2] \in 48..57

\* C20 (amended): every message delivered to a client is text that starts
\* with the word 'video' or 'audio' and consists of fields separated by
\* ':', in the same order for every message of a kind: the word, the
\* timestamp of a captured event as decimal text, for video the width and
\* then the height as decimal text, and last the payload as text (the
\* base64 text of the frame for video, the decoded block for audio).
C20_TextLayout ==
    \A c \in ClientIds : \A i \in DOMAIN sent[c] :
        LET w == SentText(c, i)
        IN IF sent[c][i][1] = "video"
           THEN LET p == Split(w, 4)
                IN /\ Len(p) = 5
                   /\ p[1] = KindWord("video")
                   /\ ParseFloat(p[2]) \in 1..vcount
                   /\ p[2] = FloatStr(ParseFloat(p[2]))
                   /\ p[3] = Digits(Width)
                   /\ p[4] = Digits(Height)
                   /\ p[5] = B64Encode(Frame(ParseFloat(p[2])))
           ELSE LET p == Split(w, 2)
                IN /\ Len(p) = 3
                   /\ p[1] = KindWord("audio")
                   /\ ParseFloat(p[2]) \in 1..acount
                   /\ p[2] = FloatStr(ParseFloat(p[2]))
                   /\ Utf8Encode(p[3]) \in AudioBlocks

\* A client was sent a video message and an audio message.
C20_Witness ==
    \E c \in ClientIds : \E i, j \in DOMAIN sent[c] :
        sent[c][i][1] = "video" /\ sent[c][j][1] = "audio"

(***************************************************************************)
(* C21.  Who puts to and gets from a client queue.                         *)
(***************************************************************************)
\* The step is a put of the Broadcaster's fan-out on the queue of c.
FanOutPut(c) ==
    /\ bpc = "fanout" /\ bpc' # "fanout"
    /\ Len(offered'[c]) = Len(offered[c]) + 1
    /\ outq'[c] = Append(outq[c], offered'[c][Len(offered'[c])].msg)

\* The step is the put of the sentinel by the connection handler of c.
HandlerPut(c) ==
    /\ hpc[c] = "cleanup" /\ hpc'[c] = "closed"
    /\ outq'[c] = Append(outq[c], None)

\* The step is a get of the Sender of c.
SenderGet(c) ==
    /\ spc[c] = "get" /\ spc'[c] \in {"send", "done"}
    /\ outq[c] # <<>> /\ outq'[c] = Tail(outq[c])

\* C21 (as claimed): the only step that puts an item on a client's queue
\* is a put of the Broadcaster's fan-out, and the only step that takes an
\* item from it is a get of that client's own Sender.
C21_OneProducerOneConsumer ==
    [][ \A c \in ClientIds :
          outq'[c] # outq[c] => (FanOutPut(c) \/ SenderGet(c)) ]_vars

\* C21 (amended): a client's queue changes only by a put of the
\* Broadcaster's fan-out, by the one put of the sentinel that the client's
\* own connection handler makes in its cleanup, or by a get of the client's
\* own Sender.
C21_TwoProducersOneConsumer ==
    [][ \A c \in ClientIds :
          outq'[c] # outq[c] =>
             (FanOutPut(c) \/ HandlerPut(c) \/ SenderGet(c)) ]_vars

\* A's handler has put the sentinel behind a message of the Broadcaster,
\* and A's Sender has taken and delivered an earlier message.
C21_Witness ==
    /\ hpc["A"] = "closed"
    /\ Len(outq["A"]) = 2 /\ outq["A"][2] = None /\ outq["A"][1] # None
    /\ sent["A"] # <<>>

(***************************************************************************)
(* C25.  Drops at an ingestion queue are logged.                           *)
(***************************************************************************)
\* C25: every step in which a producer discards a captured event because
\* its ingestion queue is full logs one warning, for the video producer of
\* either camera type and for the audio producer, and leaves the producer
\* ready to capture the next event.
C25_DropsAreLogged ==
    [][ /\ (vcount' # vcount /\ QFull(vq, VideoQueueSize)) =>
              (vwarn' = vwarn + 1 /\ vpc' = "idle")
        /\ (acount' # acount /\ QFull(aq, AudioQueueSize)) =>
              (awarn' = awarn + 1 /\ apc' = "idle") ]_vars

(***************************************************************************)
(* C26.  The Sender and the sentinel.                                      *)
(***************************************************************************)
\* The step in which the Sender of c dequeues the sentinel.
GetsSentinel(c) ==
    /\ spc[c] = "get" /\ spc'[c] # "get"
    /\ outq[c] # <<>> /\ Head(outq[c]) = None

\* C26: the step in which a Sender dequeues the sentinel ends the Sender
\* and passes nothing to ws.send; by then every message that was enqueued
\* to the client has been dequeued and delivered, in order, and no send of
\* the Sender has raised; the sentinel is never delivered.
C26_SentinelEndsSender ==
    /\ [][ \A c \in ClientIds :
             GetsSentinel(c) =>
                /\ spc'[c] = "done"
                /\ smsg'[c] = NoItem /\ sent'[c] = sent[c]
                /\ ~sendFailed[c]
                /\ sent[c] = Enqueued(c)
                /\ outq'[c] = <<>> ]_vars
    /\ [](\A c \in ClientIds : \A i \in DOMAIN sent[c] : sent[c][i] # None)

\* A Sender that delivered two messages has ended by the sentinel: its
\* queue is empty and no send raised.
C26_Witness ==
    \E c \in ClientIds :
        /\ spc[c] = "done" /\ ~sendFailed[c] /\ hpc[c] = "closed"
        /\ Len(sent[c]) = 2 /\ sent[c] = Enqueued(c)
        /\ outq[c] = <<>>

(***************************************************************************)
(* C27.  One event of each kind per iteration.                             *)
(***************************************************************************)
\* The Broadcaster has dequeued an event of the kind in the current
\* iteration of its while loop.
DequeuedThisIteration(kind) ==
    \/ kind \in iterDone
    \/ bpc \in {"lock", "fanout", "crashed"} /\ bmsg[1] = kind

\* The Broadcaster has dequeued the event k.
Dequeued(k) == \E i \in DOMAIN deq : deq[i].key = k

\* The Broadcaster is at the top of its while loop.
IterationStart == bpc = "poll" /\ qidx = 1

\* C27: an iteration of the Broadcaster dequeues at most one event of each
\* kind; an iteration that began with events pending on both queues does
\* not end before it has handled one of each; and a video event that is at
\* the head of the video queue when an iteration starts is dequeued.
C27_VideoNotStarved ==
    /\ [][ Len(deq') > Len(deq) =>
              ~DequeuedThisIteration(deq'[Len(deq')].key[1]) ]_vars
    /\ []((bpc = "sleep" /\ iterBoth) => iterDone = {"audio", "video"})
    /\ \A t \in 1..MaxVideoEvents :
          (IterationStart /\ vq # <<>> /\ Key(Head(vq)) = <<"video", t>>)
             ~> Dequeued(<<"video", t>>)

(***************************************************************************)
(* C28.  The Broadcaster suspends only in its sleep.                       *)
(***************************************************************************)
\* C28: the Broadcaster enters time.sleep only from the end of an
\* iteration and only in a step in which both ingestion queues are empty;
\* wherever else it is in its loop it has a step to take, whatever the
\* ingestion queues, the client queues and the Senders are doing, except
\* while it waits for clients_lock; and every iteration that starts
\* reaches its end.
C28_OnlyBoundedSleep ==
    /\ [][ (bpc' = "nap" /\ bpc # "nap") =>
              (bpc = "sleep" /\ aq = <<>> /\ vq = <<>>) ]_vars
    /\ [](bpc \in {"poll", "fanout", "sleep", "nap"} => ENABLED Broadcaster)
    /\ [](bpc = "lock" /\ lock = "free" => ENABLED Broadcaster)
    /\ IterationStart ~> (bpc = "sleep")

(***************************************************************************)
(* C29.  Every event is consumed once.                                     *)
(***************************************************************************)
\* C29: no event is dequeued twice; an ingestion queue grows only by the
\* put of its producer (nothing is put back); between two events the
\* Broadcaster holds none; and every event put on an ingestion queue is
\* dequeued, whether or not a client is registered.
C29_ConsumedOnce ==
    /\ [](\A i, j \in DOMAIN deq : i # j => deq[i].key # deq[j].key)
    /\ [][ /\ Len(vq') > Len(vq) => vpc = "put"
           /\ Len(aq') > Len(aq) => apc = "put" ]_vars
    /\ [](bpc \in {"poll", "sleep", "nap"} => bmsg = NoItem)
    /\ \A kind \in {"audio", "video"} :
          \A t \in 1..(MaxVideoEvents + MaxAudioEvents) :
             OnIngestQ(<<kind, t>>) ~> Dequeued(<<kind, t>>)

(***************************************************************************)
(* C30.  The periodic report.                                              *)
(***************************************************************************)
\* Seconds the clock advances in one step, and the time the clock stops at.
TickStep == 5
MaxClock == 30

\* Time passes.
Tick ==
    /\ now + TickStep <= MaxClock
    /\ now' = now + TickStep
    /\ UNCHANGED <<flaskVars, mjpegVars, peers, stalled, steady, vmax, amax, cameraType, lastLog, jsum, jcount, counted, report, vwarn, awarn, vpc, apc, vq, aq, vcount, acount, clients, lock, outq, hpc, wsOpen,
                   spc, smsg, bpc, qidx, bmsg, todo, sent, offered, sendFailed,
                   deq, iterBoth, iterDone>>

\* The Broadcaster and the producers over a run of MaxClock seconds in
\* which no client connects.
DiagInit ==
    /\ Start
    /\ peers = {} /\ stalled = {} /\ steady = {}
    /\ vmax = MaxVideoEvents /\ amax = MaxAudioEvents

DiagNext ==
    \/ VideoCapture
    \/ VideoPut
    \/ AudioCapture
    \/ AudioPut
    \/ Broadcaster
    \/ Tick

DiagSpec == DiagInit /\ [][DiagNext]_vars

\* Sum of the sizes of the frames captured at the timestamps.
RECURSIVE SumSizes(_)
SumSizes(ts) ==
    IF ts = <<>> THEN 0 ELSE Len(Frame(Head(ts))) + SumSizes(Tail(ts))

\* C30: the mean of every report, which the code gives in KiB, is the sum
\* of the sizes of the frames counted since the counters were last reset
\* divided by their number, and 0 without a division when none was
\* counted; the report is made only when more than ReportInterval seconds
\* have passed since last_log_time; and the step that makes a report
\* leaves both counters at 0.
C30_Report ==
    /\ [](report # <<>> =>
            LET r == report[1]
            IN /\ r.mean[2] # 0
               /\ r.mean[1] * 1024 * Len(r.counted)
                     = SumSizes(r.counted) * r.mean[2]
               /\ r.counted = <<>> => r.mean[1] = 0
               /\ r.at - r.prev > ReportInterval)
    /\ [][report' # report => jsum' = 0 /\ jcount' = 0]_vars

\* A report was made over two frames of different sizes.
C30_Witness ==
    /\ report # <<>>
    /\ Len(report[1].counted) = 2
    /\ Len(Frame(report[1].counted[1])) # Len(Frame(report[1].counted[2]))

(***************************************************************************)
(* The Flask variant, src/main.py.                                         *)
(***************************************************************************)
\* Frames the camera delivers and blocks the audio device delivers in a run.
MaxFrames == 3
MaxBlocks == 2

\* The JPEG of frame n (cv2.imencode / JpegEncoder output), the PCM bytes
\* of block n, the multipart chunk around a JPEG and the WAV header.
Jpeg(n) == <<"jpeg", n>>
Pcm(n) == <<"pcm", n>>
Chunk(jpeg) == <<"--frame", jpeg>>
WavHeader == <<"RIFF">>

\* usb_video_capture_thread: raw_frame_queue.put((seq, frame)); seq += 1
UsbCapture ==
    /\ cameraType = "usb"
    /\ seq < MaxFrames
    /\ raw_frame_queue' = Append(raw_frame_queue, seq)
    /\ seq' = seq + 1
    /\ UNCHANGED <<wsVars, mjpegVars, encoding, video_buffer, audio_buffer,
                   blocks, vgen, frame_buffer, next_frame_num, yielded, agen,
                   ayielded>>

\* jpeg_encoder_process: seq, frame = in_q.get()
EncoderGet(e) ==
    /\ encoding[e] = NoSeq
    /\ raw_frame_queue # <<>>
    /\ encoding' = [encoding EXCEPT ![e] = Head(raw_frame_queue)]
    /\ raw_frame_queue' = Tail(raw_frame_queue)
    /\ UNCHANGED <<wsVars, mjpegVars, seq, video_buffer, audio_buffer,
                   blocks, vgen, frame_buffer, next_frame_num, yielded, agen,
                   ayielded>>

\* jpeg_encoder_process: out_q.put((seq, encoded_frame.tobytes()))
EncoderPut(e) ==
    /\ encoding[e] # NoSeq
    /\ video_buffer' = Append(video_buffer, <<encoding[e], Jpeg(encoding[e])>>)
    /\ encoding' = [encoding EXCEPT ![e] = NoSeq]
    /\ UNCHANGED <<wsVars, mjpegVars, seq, raw_frame_queue, audio_buffer,
                   blocks, vgen, frame_buffer, next_frame_num, yielded, agen,
                   ayielded>>

\* rpi_video_capture_thread: JpegOutput.write(b): buffer.put(b)
RpiWrite ==
    /\ cameraType = "rpi"
    /\ seq < MaxFrames
    /\ video_buffer' = Append(video_buffer, Jpeg(seq))
    /\ seq' = seq + 1
    /\ UNCHANGED <<wsVars, mjpegVars, raw_frame_queue, encoding, audio_buffer,
                   blocks, vgen, frame_buffer, next_frame_num, yielded, agen,
                   ayielded>>

\* audio_capture_thread.callback: buffer.put(...)
AudioCallback ==
    /\ blocks < MaxBlocks
    /\ audio_buffer' = Append(audio_buffer, Pcm(blocks))
    /\ blocks' = blocks + 1
    /\ UNCHANGED <<wsVars, mjpegVars, seq, raw_frame_queue, encoding,
                   video_buffer, vgen, frame_buffer, next_frame_num, yielded,
                   agen, ayielded>>

\* video_feed: a client requests /video_feed and its generator starts.
VideoFeed(c) ==
    /\ vgen[c] = "off"
    /\ vgen' = [vgen EXCEPT ![c] = "get"]
    /\ UNCHANGED <<wsVars, mjpegVars, seq, raw_frame_queue, encoding,
                   video_buffer, audio_buffer, blocks, frame_buffer,
                   next_frame_num, yielded, agen, ayielded>>

\* gen_video_ordered: seq, jpeg_data = video_buffer.get();
\* frame_buffer[seq] = jpeg_data
GenOrderedGet(c) ==
    /\ cameraType = "usb"
    /\ vgen[c] = "get"
    /\ video_buffer # <<>>
    /\ frame_buffer' = [frame_buffer EXCEPT
                           ![c] = @ \cup {Head(video_buffer)[1]}]
    /\ video_buffer' = Tail(video_buffer)
    /\ vgen' = [vgen EXCEPT ![c] = "drain"]
    /\ UNCHANGED <<wsVars, mjpegVars, seq, raw_frame_queue, encoding,
                   audio_buffer, blocks, next_frame_num, yielded, agen,
                   ayielded>>

\* A generator that yields a frame as soon as it has arrived, whatever its
\* number.
GenYieldOnArrival(c) ==
    /\ vgen[c] = "drain"
    /\ \E n \in frame_buffer[c] :
          /\ yielded' = [yielded EXCEPT ![c] = Append(@, Chunk(Jpeg(n)))]
          /\ frame_buffer' = [frame_buffer EXCEPT ![c] = @ \ {n}]
    /\ vgen' = [vgen EXCEPT ![c] = "yield"]
    /\ UNCHANGED <<wsVars, mjpegVars, seq, raw_frame_queue, encoding,
                   video_buffer, audio_buffer, blocks, next_frame_num, agen,
                   ayielded>>

\* gen_video_ordered: while next_frame_num in frame_buffer:
\* frame_to_yield = frame_buffer.pop(next_frame_num); yield ...
GenOrderedYield(c) ==
    /\ vgen[c] = "drain"
    /\ next_frame_num[c] \in frame_buffer[c]
    /\ yielded' = [yielded EXCEPT
                      ![c] = Append(@, Chunk(Jpeg(next_frame_num[c])))]
    /\ frame_buffer' = [frame_buffer EXCEPT ![c] = @ \ {next_frame_num[c]}]
    /\ vgen' = [vgen EXCEPT ![c] = "yield"]
    /\ UNCHANGED <<wsVars, mjpegVars, seq, raw_frame_queue, encoding,
                   video_buffer, audio_buffer, blocks, next_frame_num, agen,
                   ayielded>>

\* gen_video_ordered is resumed after its yield: next_frame_num += 1 and
\* the inner while tests again.
GenOrderedResume(c) ==
    /\ cameraType = "usb"
    /\ vgen[c] = "yield"
    /\ next_frame_num' = [next_frame_num EXCEPT ![c] = @ + 1]
    /\ vgen' = [vgen EXCEPT ![c] = "drain"]
    /\ UNCHANGED <<wsVars, mjpegVars, seq, raw_frame_queue, encoding,
                   video_buffer, audio_buffer, blocks, frame_buffer, yielded,
                   agen, ayielded>>

\* gen_video_ordered: the inner while ends, back to video_buffer.get()
GenOrderedLoop(c) ==
    /\ vgen[c] = "drain"
    /\ next_frame_num[c] \notin frame_buffer[c]
    /\ vgen' = [vgen EXCEPT ![c] = "get"]
    /\ UNCHANGED <<wsVars, mjpegVars, seq, raw_frame_queue, encoding,
                   video_buffer, audio_buffer, blocks, frame_buffer,
                   next_frame_num, yielded, agen, ayielded>>

\* gen_video_simple: yield chunk around video_buffer.get()
GenSimple(c) ==
    /\ cameraType = "rpi"
    /\ vgen[c] = "get"
    /\ video_buffer # <<>>
    /\ yielded' = [yielded EXCEPT ![c] = Append(@, Chunk(Head(video_buffer)))]
    /\ video_buffer' = Tail(video_buffer)
    /\ vgen' = [vgen EXCEPT ![c] = "yield"]
    /\ UNCHANGED <<wsVars, mjpegVars, seq, raw_frame_queue, encoding,
                   audio_buffer, blocks, frame_buffer, next_frame_num,
                   agen, ayielded>>

\* gen_video_simple is resumed after its yield: back to video_buffer.get()
GenSimpleResume(c) ==
    /\ cameraType = "rpi"
    /\ vgen[c] = "yield"
    /\ vgen' = [vgen EXCEPT ![c] = "get"]
    /\ UNCHANGED <<wsVars, mjpegVars, seq, raw_frame_queue, encoding,
                   video_buffer, audio_buffer, blocks, frame_buffer,
                   next_frame_num, yielded, agen, ayielded>>

\* The client of /video_feed has gone: the server cannot write the chunk
\* the generator yielded and closes the generator, which ends at its yield.
VideoGone(c) ==
    /\ vgen[c] = "yield"
    /\ vgen' = [vgen EXCEPT ![c] = "closed"]
    /\ UNCHANGED <<wsVars, mjpegVars, seq, raw_frame_queue, encoding,
                   video_buffer, audio_buffer, blocks, frame_buffer,
                   next_frame_num, yielded, agen, ayielded>>

\* audio_feed: a client requests /audio_feed and its generator starts.
AudioFeed(c) ==
    /\ agen[c] = "off"
    /\ agen' = [agen EXCEPT ![c] = "header"]
    /\ UNCHANGED <<wsVars, mjpegVars, seq, raw_frame_queue, encoding,
                   video_buffer, audio_buffer, blocks, vgen, frame_buffer,
                   next_frame_num, yielded, ayielded>>

\* gen_audio: yield _generate_wav_header(...)
GenAudioHeader(c) ==
    /\ agen[c] = "header"
    /\ ayielded' = [ayielded EXCEPT ![c] = Append(@, WavHeader)]
    /\ agen' = [agen EXCEPT ![c] = "get"]
    /\ UNCHANGED <<wsVars, mjpegVars, seq, raw_frame_queue, encoding,
                   video_buffer, audio_buffer, blocks, vgen, frame_buffer,
                   next_frame_num, yielded>>

\* gen_audio: while True: yield audio_buffer.get()
GenAudioGet(c) ==
    /\ agen[c] = "get"
    /\ audio_buffer # <<>>
    /\ ayielded' = [ayielded EXCEPT ![c] = Append(@, Head(audio_buffer))]
    /\ audio_buffer' = Tail(audio_buffer)
    /\ UNCHANGED <<wsVars, mjpegVars, seq, raw_frame_queue, encoding,
                   video_buffer, blocks, vgen, frame_buffer, next_frame_num,
                   yielded, agen>>

\* A response generator of client c.
Generator(c) ==
    \/ GenOrderedGet(c) \/ GenOrderedYield(c) \/ GenOrderedResume(c)
    \/ GenOrderedLoop(c)
    \/ GenSimple(c) \/ GenSimpleResume(c)
    \/ GenAudioHeader(c) \/ GenAudioGet(c)

\* The WebSocket program is not running.
Idle ==
    /\ Start
    /\ peers = {} /\ stalled = {} /\ steady = {}
    /\ vmax = 0 /\ amax = 0

FlaskInit == Idle

FlaskNext ==
    \/ UsbCapture
    \/ RpiWrite
    \/ AudioCallback
    \/ \E e \in Encoders : EncoderGet(e)
    \/ \E e \in Encoders : EncoderPut(e)
    \/ \E c \in ClientIds : VideoFeed(c)
    \/ \E c \in ClientIds : VideoGone(c)
    \/ \E c \in ClientIds : AudioFeed(c)
    \/ \E c \in ClientIds : Generator(c)

FlaskSpec == FlaskInit /\ [][FlaskNext]_vars

\* Encoder processes and response generators keep running; capture and
\* clients owe nothing.
FlaskFairSpec ==
    /\ FlaskSpec
    /\ \A e \in Encoders : WF_vars(EncoderGet(e) \/ EncoderPut(e))
    /\ \A c \in ClientIds : WF_vars(Generator(c))

(***************************************************************************)
(* C22.  Memory of the Flask variant.                                      *)
(***************************************************************************)
\* C22: none of audio_buffer, video_buffer and raw_frame_queue ever holds
\* everything capture has delivered over the run: each stays below a bound
\* that does not grow with the number of frames and blocks captured.
C22_BoundedBuffers ==
    /\ Len(audio_buffer) < MaxBlocks
    /\ Len(video_buffer) < MaxFrames
    /\ Len(raw_frame_queue) < MaxFrames

(***************************************************************************)
(* C23.  Several clients of the Flask variant.                             *)
(***************************************************************************)
\* The JPEG of an item of video_buffer: an item is (seq, jpeg) with the
\* usb camera and the jpeg itself with the rpi camera.
JpegOf(item) == IF cameraType = "usb" THEN item[2] ELSE item

\* Frame n is on video_buffer.
OnVideoBuffer(n) ==
    \E i \in DOMAIN video_buffer : JpegOf(video_buffer[i]) = Jpeg(n)

\* Client c has a /video_feed generator that has not been closed.
Streaming(c) == vgen[c] \in {"get", "drain", "yield"}

\* C23: a frame that is on video_buffer while both clients have a
\* /video_feed generator is yielded to both of them unless one of them
\* goes away, and a block that is
\* on audio_buffer while both clients have an /audio_feed generator past
\* its header is yielded to both of them.
C23_EveryClientGetsEverything ==
    /\ \A n \in 0..(MaxFrames - 1) :
          ((\A c \in ClientIds : Streaming(c)) /\ OnVideoBuffer(n))
             ~> \/ \A c \in ClientIds : Chunk(Jpeg(n)) \in Range(yielded[c])
                \/ \E c \in ClientIds : vgen[c] = "closed"
    /\ \A n \in 0..(MaxBlocks - 1) :
          ((\A c \in ClientIds : agen[c] = "get")
              /\ Pcm(n) \in Range(audio_buffer))
             ~> (\A c \in ClientIds : Pcm(n) \in Range(ayielded[c]))

(***************************************************************************)
(* The StreamingOutput variants: src/python/main.py, src/stream.py,        *)
(* src/usb.py, src/rpicam.py.                                              *)
(***************************************************************************)
\* Calls of StreamingOutput.write in a run.
MaxWrites == 3

\* The clients that may stop reading their stream.
MayStall == {"A"}

\* StreamingOutput.write: `with self.condition:` acquires the lock.
WAcquire ==
    /\ written < MaxWrites
    /\ condition = "free"
    /\ condition' = "writer"
    /\ UNCHANGED <<wsVars, flaskVars, frame, written, mpc, hframe, msent,
                   blocked, waitedAt>>

\* StreamingOutput.write: self.frame = buf; self.condition.notify_all();
\* the with block ends and releases the lock.
WNotify ==
    /\ condition = "writer"
    /\ frame' = written + 1
    /\ written' = written + 1
    /\ mpc' = [h \in ClientIds |->
                  IF mpc[h] = "waiting" THEN "woken" ELSE mpc[h]]
    /\ condition' = "free"
    /\ UNCHANGED <<wsVars, flaskVars, hframe, msent, blocked, waitedAt>>

\* do_GET for /stream.mjpg: the response headers are sent and the loop
\* is entered.
MConnect(h) ==
    /\ mpc[h] = "idle"
    /\ mpc' = [mpc EXCEPT ![h] = "enter"]
    /\ UNCHANGED <<wsVars, flaskVars, frame, condition, written, hframe,
                   msent, blocked, waitedAt>>

\* do_GET: `with output.condition:` acquires the lock.
MAcquire(h) ==
    /\ mpc[h] = "enter"
    /\ condition = "free"
    /\ condition' = h
    /\ mpc' = [mpc EXCEPT ![h] = "locked"]
    /\ UNCHANGED <<wsVars, flaskVars, frame, written, hframe, msent, blocked,
                   waitedAt>>

\* A handler that reads output.frame without waiting for a write.
MPoll(h) ==
    /\ mpc[h] = "locked"
    /\ waitedAt' = [waitedAt EXCEPT ![h] = written]
    /\ mpc' = [mpc EXCEPT ![h] = "read"]
    /\ UNCHANGED <<wsVars, flaskVars, frame, condition, written, hframe,
                   msent, blocked>>

\* do_GET: output.condition.wait() releases the lock and blocks.
MWait(h) ==
    /\ mpc[h] = "locked"
    /\ condition' = "free"
    /\ waitedAt' = [waitedAt EXCEPT ![h] = written]
    /\ mpc' = [mpc EXCEPT ![h] = "waiting"]
    /\ UNCHANGED <<wsVars, flaskVars, frame, written, hframe, msent, blocked>>

\* do_GET: wait() was notified and takes the lock again before it returns.
MReacquire(h) ==
    /\ mpc[h] = "woken"
    /\ condition = "free"
    /\ condition' = h
    /\ mpc' = [mpc EXCEPT ![h] = "read"]
    /\ UNCHANGED <<wsVars, flaskVars, frame, written, hframe, msent, blocked,
                   waitedAt>>

LockKept(h) == h

\* Holder of the lock when the handler starts writing to its socket: the
\* with block has ended before self.wfile.write.
LockAfterRead(h) == "free"

\* do_GET: frame = output.frame; the with block ends.
MRead(h) ==
    /\ mpc[h] = "read"
    /\ hframe' = [hframe EXCEPT ![h] = frame]
    /\ condition' = LockAfterRead(h)
    /\ mpc' = [mpc EXCEPT ![h] = "send"]
    /\ UNCHANGED <<wsVars, flaskVars, frame, written, msent, blocked, waitedAt>>

\* do_GET: the boundary, the headers and the frame are written to the
\* socket, which returns only if the client reads.
MSend(h) ==
    /\ mpc[h] = "send"
    /\ h \notin blocked
    /\ msent' = [msent EXCEPT ![h] = Append(@, hframe[h])]
    /\ mpc' = [mpc EXCEPT ![h] = "enter"]
    /\ condition' = IF condition = h THEN "free" ELSE condition
    /\ UNCHANGED <<wsVars, flaskVars, frame, written, hframe, blocked, waitedAt>>

\* The client stops reading its stream.
MBlock(h) ==
    /\ h \in MayStall
    /\ h \notin blocked
    /\ mpc[h] \notin {"idle", "gone"}
    /\ blocked' = blocked \cup {h}
    /\ UNCHANGED <<wsVars, flaskVars, frame, condition, written, mpc, hframe,
                   msent, waitedAt>>

\* do_GET: the blocked socket write raises (socket.timeout after the 5 s of
\* settimeout in src/python/main.py, or a reset connection) and the
\* handler ends.
MTimeout(h) ==
    /\ mpc[h] = "send"
    /\ h \in blocked
    /\ mpc' = [mpc EXCEPT ![h] = "gone"]
    /\ condition' = IF condition = h THEN "free" ELSE condition
    /\ UNCHANGED <<wsVars, flaskVars, frame, written, hframe, msent, blocked,
                   waitedAt>>

\* The capture writer.
Writer == WAcquire \/ WNotify

\* The steps of the handler thread of h.
StreamHandler(h) ==
    MAcquire(h) \/ MWait(h) \/ MReacquire(h) \/ MRead(h) \/ MSend(h)

MjpegInit == Idle

MjpegNext ==
    \/ Writer
    \/ \E h \in ClientIds : MConnect(h)
    \/ \E h \in ClientIds : StreamHandler(h)
    \/ \E h \in ClientIds : MBlock(h)
    \/ \E h \in ClientIds : MTimeout(h)

MjpegSpec == MjpegInit /\ [][MjpegNext]_vars

\* The writer and every handler thread keep being scheduled.
MjpegFairSpec ==
    /\ MjpegSpec
    /\ WF_vars(Writer)
    /\ \A h \in ClientIds : WF_vars(StreamHandler(h))

(***************************************************************************)
(* C24.  A stalled client does not stall capture.                          *)
(***************************************************************************)
\* C24: no handler holds the lock of the condition while it writes to its
\* socket; the writer, whenever it has a frame, gets it written, whether
\* or not a client is blocked in its socket write; and a handler of a
\* client that reads, once notified, sends the frame and returns to the
\* top of its loop.
C24_StalledClientStallsNothing ==
    /\ [](\A h \in ClientIds : mpc[h] = "send" => condition # h)
    /\ \A k \in 0..(MaxWrites - 1) : (written = k) ~> (written = k + 1)
    /\ \A h \in ClientIds \ MayStall : (mpc[h] = "woken") ~> (mpc[h] = "enter")

\* A is blocked in its socket write; since it read its frame the writer
\* has written again and B has sent a later frame.
C24_Witness ==
    /\ "A" \in blocked /\ mpc["A"] = "send"
    /\ written > hframe["A"]
    /\ \E i \in DOMAIN msent["B"] : msent["B"][i] > hframe["A"]

(***************************************************************************)
(* C31.  No deadlock on clients_lock.                                      *)
(***************************************************************************)
\* The threads that stand at a `with clients_lock:` they have not entered:
\* the Broadcaster with a message to fan out, and a connection handler
\* whose receive has raised.
WantsLock ==
    (IF bpc = "lock" THEN {"broadcaster"} ELSE {})
    \cup {c \in ClientIds : hpc[c] = "receive" /\ ReceiveRaises(c)}

\* The step that leaves the critical section the actor a is in.
Release(a) ==
    IF a = "broadcaster" THEN BFanout ELSE HRegister(a) \/ HCleanup(a)

\* C31: the holder of clients_lock can always take the step that releases
\* it: it waits for no queue and for no other thread; a Sender never
\* waits for the lock, its next step is always possible; and under fair
\* scheduling a thread that wants the lock eventually holds it.
C31_DeadlockFreedom ==
    /\ [](\A a \in {"broadcaster"} \cup ClientIds :
             lock = a => ENABLED Release(a))
    /\ [](\A c \in ClientIds \ stalled :
             spc[c] \in {"get", "send"} => ENABLED Sender(c))
    /\ \A a \in {"broadcaster"} \cup ClientIds :
          (a \in WantsLock) ~> (lock = a)

\* The Broadcaster is inside the fan-out while A's handler, whose peer is
\* gone, wants the lock for its cleanup and both Senders wait on their
\* empty queues.
C31_Witness ==
    /\ lock = "broadcaster"
    /\ "A" \in WantsLock
    /\ "B" \in Range(clients)
    /\ spc["A"] = "get" /\ outq["A"] = <<>>
    /\ spc["B"] = "get" /\ outq["B"] = <<>>

(***************************************************************************)
(* C32.  At-most-once delivery to the owner of the queue.                  *)
(***************************************************************************)
\* C32: a Sender takes the message it passes to ws.send from the head of
\* its own client's queue, removing it; it passes that message to its own
\* client's WebSocket and holds it no longer; so the messages passed to a
\* client's WebSocket so far, each counted once, are among the messages
\* the fan-out enqueued on that client's queue, in their order.
C32_AtMostOnce ==
    /\ [][ \A c \in ClientIds :
             (smsg'[c] # smsg[c] /\ smsg'[c] # NoItem) =>
                /\ outq[c] # <<>>
                /\ smsg'[c] = Head(outq[c])
                /\ outq'[c] = Tail(outq[c])
                /\ \A d \in ClientIds \ {c} : outq'[d] = outq[d] ]_vars
    /\ [][ \A c \in ClientIds :
             (spc[c] = "send" /\ spc'[c] # "send") =>
                /\ smsg'[c] = NoItem
                /\ sent'[c] \in {sent[c], Append(sent[c], smsg[c])}
                /\ \A d \in ClientIds \ {c} : sent'[d] = sent[d] ]_vars
    /\ [](\A c \in ClientIds :
             IsSubseq(sent[c] \o Held(c), Enqueued(c)))

\* Both clients were sent what was enqueued for them: A two messages, B,
\* which registered after the first fan-out, only the second.
C32_Witness ==
    /\ Len(sent["A"]) = 2 /\ Len(Enqueued("A")) = 2
    /\ Len(sent["B"]) = 1 /\ Len(Enqueued("B")) = 1
    /\ sent["B"][1] = sent["A"][2]

(***************************************************************************)
(* C33.  gen_video_ordered yields in sequence order.                       *)
(***************************************************************************)
\* C33: with the usb camera every generator starts at frame number 0 with
\* an empty reorder buffer, each of its yields is the frame whose number is
\* next_frame_num, taken from the reorder buffer, and next_frame_num
\* changes only by the increment that follows a yield; so what a client
\* has been yielded is always frames 0, 1, 2, ... in this order, without
\* gap or repetition, in whatever order the encoders put them.
C33_YieldsInOrder ==
    /\ [][ \A c \in ClientIds :
             (vgen[c] = "off" /\ vgen'[c] # "off") =>
                (next_frame_num'[c] = 0 /\ frame_buffer'[c] = {}) ]_vars
    /\ [][ \A c \in ClientIds :
             (cameraType = "usb" /\ yielded'[c] # yielded[c]) =>
                /\ next_frame_num[c] \in frame_buffer[c]
                /\ yielded'[c] =
                      Append(yielded[c], Chunk(Jpeg(next_frame_num[c])))
                /\ next_frame_num'[c] = next_frame_num[c] ]_vars
    /\ [][ \A c \in ClientIds :
             next_frame_num'[c] # next_frame_num[c] =>
                /\ vgen[c] = "yield"
                /\ next_frame_num'[c] = next_frame_num[c] + 1 ]_vars
    /\ [](cameraType = "usb" =>
            \A c \in ClientIds : \A i \in DOMAIN yielded[c] :
               yielded[c][i] = Chunk(Jpeg(i - 1)))

\* A has been yielded frames 0 and 1 and holds frame 2 in its reorder
\* buffer: frame 2 was put on video_buffer before frame 1.
C33_Witness ==
    /\ cameraType = "usb"
    /\ yielded["A"] = <<Chunk(Jpeg(0)), Chunk(Jpeg(1))>>
    /\ vgen["A"] = "yield"
    /\ frame_buffer["A"] = {2}

(***************************************************************************)
(* C34.  Progress of gen_video_ordered.                                    *)
(***************************************************************************)
\* C34: with the usb camera, while a client has a /video_feed generator
\* every frame that was given a sequence number is eventually yielded to
\* a client, and a frame that waits in the generator's reorder buffer
\* eventually leaves it, unless that client goes away.
C34_OrderedProgress ==
    \A c \in ClientIds :
        /\ \A n \in 0..(MaxFrames - 1) :
              (cameraType = "usb" /\ n < seq /\ Streaming(c))
                 ~> \/ \E d \in ClientIds : Chunk(Jpeg(n)) \in Range(yielded[d])
                    \/ vgen[c] = "closed"
        /\ (Streaming(c) /\ frame_buffer[c] # {})
              ~> (frame_buffer[c] = {} \/ vgen[c] = "closed")

(***************************************************************************)
(* C35.  A handler sends only frames written after it began to wait.       *)
(***************************************************************************)
\* C35: the frame a handler is about to write to its socket is a written
\* frame, never the initial None, and was written after the handler last
\* called wait(); the handler leaves wait() only by a write; what it sends
\* is that frame; and the frames a handler has sent are in the order of
\* their writes, no write twice (writes may be missing in between).
C35_FreshFrames ==
    /\ [](\A h \in ClientIds :
             mpc[h] = "send" =>
                /\ hframe[h] # NoFrame
                /\ hframe[h] > waitedAt[h]
                /\ hframe[h] <= written)
    /\ [][ \A h \in ClientIds :
             (mpc[h] = "waiting" /\ mpc'[h] # "waiting") =>
                (written' = written + 1 /\ frame' = written') ]_vars
    /\ [][ \A h \in ClientIds :
             msent'[h] # msent[h] =>
                /\ msent'[h] = Append(msent[h], hframe[h])
                /\ hframe[h] > waitedAt[h] ]_vars
    /\ [](\A h \in ClientIds : \A i, j \in DOMAIN msent[h] :
             i < j => msent[h][i] < msent[h][j])

\* B has sent the first and the third frame: the second was written while
\* B was busy sending the first.
C35_Witness ==
    /\ msent["B"] = <<1, 3>>
    /\ waitedAt["B"] = 2

====
